---- MODULE Spec2Model ----
(***************************************************************************)
(* Model of the clearskies-snyk backend adapters: the JSON:API response    *)
(* normaliser and cursor extractor (SnykBackend), the legacy normaliser    *)
(* and page counter (SnykV1Backend) and the import-job creation handler    *)
(* (SnykV1ImportBackend).                                                  *)
(*                                                                         *)
(* JSON values are tagged records.  A Python str is a sequence of tokens   *)
(* (a token is an indivisible run of characters), a dict is the sequence   *)
(* of its items in insertion order, a list is the sequence of its elements.*)
(***************************************************************************)
EXTENDS Integers, Sequences, FiniteSets, TLC

VARIABLES api_version, pagination_parameter_name, v1_pagination_parameter_name,
          pc, op, arg, ret, sent

vars == <<api_version, pagination_parameter_name, v1_pagination_parameter_name,
          pc, op, arg, ret, sent>>

config == <<api_version, pagination_parameter_name, v1_pagination_parameter_name>>

----------------------------------------------------------------------------
(* Bounds *)

MaxRels == 2
MaxList == 2

----------------------------------------------------------------------------
(* JSON values *)

Null == [kind |-> "null"]
Absent == [kind |-> "absent"]
Str(s) == [kind |-> "str", v |-> s]
Num(n) == [kind |-> "num", v |-> n]
List(s) == [kind |-> "list", v |-> s]
Dict(items) == [kind |-> "dict", v |-> items]
Item(key, x) == [k |-> key, x |-> x]
EmptyDict == Dict(<<>>)
EmptyList == List(<<>>)
T(s) == Str(<<s>>)

IsDict(j) == j.kind = "dict"
IsList(j) == j.kind = "list"
IsStr(j) == j.kind = "str"

\* Python truthiness of a JSON value
Truthy(j) ==
    CASE j.kind = "null" -> FALSE
      [] j.kind = "absent" -> FALSE
      [] j.kind = "num" -> j.v # 0
      [] OTHER -> Len(j.v) > 0

Has(d, key) == \E i \in 1..Len(d.v) : d.v[i].k = key
IndexOfKey(d, key) == CHOOSE i \in 1..Len(d.v) : d.v[i].k = key
\* dict.get(key, default)
Get(d, key, default) == IF Has(d, key) THEN d.v[IndexOfKey(d, key)].x ELSE default
Keys(d) == {d.v[i].k : i \in 1..Len(d.v)}
\* d[key] = x : an existing key keeps its position, a new key is appended
Put(d, key, x) ==
    IF Has(d, key)
    THEN Dict([i \in 1..Len(d.v) |-> IF d.v[i].k = key THEN Item(key, x) ELSE d.v[i]])
    ELSE Dict(Append(d.v, Item(key, x)))

RECURSIVE UpdateItems(_, _)
UpdateItems(d, items) ==
    IF items = <<>> THEN d
    ELSE UpdateItems(Put(d, Head(items).k, Head(items).x), Tail(items))
\* d.update(e)
Update(d, e) == UpdateItems(d, e.v)

----------------------------------------------------------------------------
(* SnykBackend: response normaliser *)

\* mutant: the rename table is empty
_map_relationship_name_NoRename(rel_name) == rel_name

_map_relationship_name(rel_name) ==
    IF rel_name = "organization" THEN "org" ELSE rel_name

RelField(rel_name) == _map_relationship_name(rel_name) \o "_id"

RECURSIVE FlattenRelationships(_, _)
FlattenRelationships(flattened, items) ==
    IF items = <<>> THEN flattened
    ELSE LET rel_name == Head(items).k
             rel_data == Head(items).x
             rel_data_inner == IF IsDict(rel_data) THEN Get(rel_data, "data", EmptyDict) ELSE Null
             next == IF IsDict(rel_data) /\ IsDict(rel_data_inner)
                     THEN Put(flattened, RelField(rel_name), Get(rel_data_inner, "id", Null))
                     ELSE flattened
         IN FlattenRelationships(next, Tail(items))

\* mutant: the attributes are not merged into the flattened record
_flatten_json_api_record_NoAttributes(record) ==
    IF ~IsDict(record) THEN record
    ELSE LET flattened0 == Dict(<<Item("id", Get(record, "id", Null))>>)
             relationships == Get(record, "relationships", EmptyDict)
         IN IF IsDict(relationships)
            THEN FlattenRelationships(flattened0, relationships.v)
            ELSE flattened0

_flatten_json_api_record(record) ==
    IF ~IsDict(record) THEN record
    ELSE LET flattened0 == Dict(<<Item("id", Get(record, "id", Null))>>)
             attributes == Get(record, "attributes", EmptyDict)
             flattened1 == IF IsDict(attributes) THEN Update(flattened0, attributes) ELSE flattened0
             relationships == Get(record, "relationships", EmptyDict)
         IN IF IsDict(relationships)
            THEN FlattenRelationships(flattened1, relationships.v)
            ELSE flattened1

\* the value handed to the parent class's map_records_response
map_records_response(response_data) ==
    IF IsDict(response_data)
    THEN LET data == Get(response_data, "data", EmptyList)
         IN IF IsList(data)
            THEN List([i \in 1..Len(data.v) |-> _flatten_json_api_record(data.v[i])])
            ELSE IF IsDict(data)
                 THEN List(<<_flatten_json_api_record(data)>>)
                 ELSE response_data
    ELSE response_data

----------------------------------------------------------------------------
(* str helpers on token sequences, and exceptions *)

Raise(type, message) == [kind |-> "raise", type |-> type, v |-> message]
IsRaise(j) == j.kind = "raise"

\* str.find: the first position of a token, 0 when it does not occur
FirstIndex(s, token) ==
    IF \E i \in 1..Len(s) : s[i] = token
    THEN CHOOSE i \in 1..Len(s) : s[i] = token /\ \A j \in 1..(i - 1) : s[j] # token
    ELSE 0

\* str.split(sep)
RECURSIVE Split(_, _)
Split(s, sep) ==
    LET i == FirstIndex(s, sep)
    IN IF i = 0 THEN <<s>>
       ELSE <<SubSeq(s, 1, i - 1)>> \o Split(SubSeq(s, i + 1, Len(s)), sep)

----------------------------------------------------------------------------
(* SnykBackend: pagination cursor extractor *)

\* urllib.parse.urlparse(url).query: the text between the first "?" and the
\* first "#"
urlparse_query(url) ==
    LET h == FirstIndex(url, "#")
        noFragment == IF h = 0 THEN url ELSE SubSeq(url, 1, h - 1)
        q == FirstIndex(noFragment, "?")
    IN IF q = 0 THEN <<>> ELSE SubSeq(noFragment, q + 1, Len(noFragment))

\* urllib.parse.unquote after replace("+", " "); %3D stands for the escapes
unquote(s) ==
    [i \in 1..Len(s) |-> IF s[i] = "+" THEN " " ELSE IF s[i] = "%3D" THEN "=" ELSE s[i]]

\* urllib.parse.parse_qsl: the decoded (name, value) pairs in order; a field
\* without "=" and a field with a blank value are dropped
RECURSIVE ParseFields(_)
ParseFields(fields) ==
    IF fields = <<>> THEN <<>>
    ELSE LET name_value == Head(fields)
             e == FirstIndex(name_value, "=")
             value == SubSeq(name_value, e + 1, Len(name_value))
         IN IF e = 0 \/ Len(value) = 0
            THEN ParseFields(Tail(fields))
            ELSE <<[name |-> unquote(SubSeq(name_value, 1, e - 1)), value |-> unquote(value)]>>
                 \o ParseFields(Tail(fields))

parse_qs(query) == ParseFields(Split(query, "&"))

\* params.get(name, [None])[0]
FirstValue(params, name) ==
    IF \E i \in 1..Len(params) : params[i].name = name
    THEN Str(params[CHOOSE i \in 1..Len(params) :
                      params[i].name = name /\ \A j \in 1..(i - 1) : params[j].name # name].value)
    ELSE Null

\* mutant: the cursor is read from the URL parameter named like the
\* configured request parameter
get_next_page_data_from_response_ConfiguredName(parameter_name, response) ==
    LET response_data == IF response.has_content THEN response.json ELSE EmptyDict
        links == IF IsDict(response_data) THEN Get(response_data, "links", EmptyDict) ELSE Null
        next_url == IF IsDict(links) THEN Get(links, "next", Str(<<>>)) ELSE Null
    IN IF ~Truthy(next_url) THEN EmptyDict
       ELSE IF ~IsStr(next_url)
            THEN Raise("AttributeError", <<"object has no attribute 'decode'">>)
            ELSE LET starting_after == FirstValue(parse_qs(urlparse_query(next_url.v)),
                                                  <<parameter_name>>)
                 IN IF Truthy(starting_after)
                    THEN Dict(<<Item(parameter_name, starting_after)>>)
                    ELSE EmptyDict

get_next_page_data_from_response(parameter_name, response) ==
    LET response_data == IF response.has_content THEN response.json ELSE EmptyDict
        links == IF IsDict(response_data) THEN Get(response_data, "links", EmptyDict) ELSE Null
        next_url == IF IsDict(links) THEN Get(links, "next", Str(<<>>)) ELSE Null
    IN IF ~Truthy(next_url) THEN EmptyDict
       ELSE IF ~IsStr(next_url)
            THEN Raise("AttributeError", <<"object has no attribute 'decode'">>)
            ELSE LET starting_after == FirstValue(parse_qs(urlparse_query(next_url.v)),
                                                  <<"starting_after">>)
                 IN IF Truthy(starting_after)
                    THEN Dict(<<Item(parameter_name, starting_after)>>)
                    ELSE EmptyDict

----------------------------------------------------------------------------
(* SnykV1Backend: legacy response normaliser and page counter *)

\* mutant: the wrapper keys are tried in the reverse order
WrapperKeys_Reversed == <<"results", "integrations", "members", "snapshots", "projects", "orgs">>

WrapperKeys == <<"orgs", "projects", "snapshots", "members", "integrations", "results">>

IsListWrapper(response_data, wrapper_key) ==
    Has(response_data, wrapper_key) /\ IsList(Get(response_data, wrapper_key, Null))

\* the first wrapper key, in the order of WrapperKeys, that holds a list
HasKnownWrapper(response_data) ==
    \E i \in 1..Len(WrapperKeys) : IsListWrapper(response_data, WrapperKeys[i])
FirstKnownWrapper(response_data) ==
    WrapperKeys[CHOOSE i \in 1..Len(WrapperKeys) :
                    /\ IsListWrapper(response_data, WrapperKeys[i])
                    /\ \A j \in 1..(i - 1) : ~IsListWrapper(response_data, WrapperKeys[j])]

\* the value handed to the parent class's map_records_response
V1_map_records_response(response_data) ==
    IF IsDict(response_data)
    THEN IF HasKnownWrapper(response_data)
         THEN Get(response_data, FirstKnownWrapper(response_data), Null)
         ELSE IF Len(response_data.v) = 1 /\ IsList(response_data.v[1].x)
              THEN response_data.v[1].x
              ELSE response_data
    ELSE response_data

\* mutant: only the known wrapper keys are looked up
_extract_records_from_response_KnownOnly(response_data) ==
    IF IsList(response_data) THEN response_data
    ELSE IF IsDict(response_data)
         THEN IF HasKnownWrapper(response_data)
              THEN Get(response_data, FirstKnownWrapper(response_data), Null)
              ELSE EmptyList
         ELSE EmptyList

_extract_records_from_response(response_data) ==
    IF IsList(response_data) THEN response_data
    ELSE IF IsDict(response_data)
         THEN IF HasKnownWrapper(response_data)
              THEN Get(response_data, FirstKnownWrapper(response_data), Null)
              ELSE IF Len(response_data.v) = 1 /\ IsList(response_data.v[1].x)
                   THEN response_data.v[1].x
                   ELSE EmptyList
         ELSE EmptyList

DefaultLimit == 100

\* mutant: a page counts as full only when it has more records than the limit
V1_get_next_page_data_from_response_Strict(parameter_name, query, response) ==
    LET response_data == IF response.has_content THEN response.json ELSE EmptyDict
        page == Get(query.pagination, parameter_name, Null)
        current_page == IF Truthy(page) THEN page.v ELSE 1
        limit == IF Truthy(query.limit) THEN query.limit.v ELSE DefaultLimit
        records == _extract_records_from_response(response_data)
    IN IF Len(records.v) > limit
       THEN Dict(<<Item(parameter_name, Num(current_page + 1))>>)
       ELSE EmptyDict

V1_get_next_page_data_from_response(parameter_name, query, response) ==
    LET response_data == IF response.has_content THEN response.json ELSE EmptyDict
        page == Get(query.pagination, parameter_name, Null)
        current_page == IF Truthy(page) THEN page.v ELSE 1
        limit == IF Truthy(query.limit) THEN query.limit.v ELSE DefaultLimit
        records == _extract_records_from_response(response_data)
    IN IF Len(records.v) >= limit
       THEN Dict(<<Item(parameter_name, Num(current_page + 1))>>)
       ELSE EmptyDict

----------------------------------------------------------------------------
(* SnykBackend: request parameters *)

\* mutant: a version the parent mapping supplied is kept
pagination_to_request_parameters_KeepParent(version, parent) ==
    [url_parameters |-> IF Has(parent.url_parameters, "version")
                        THEN parent.url_parameters
                        ELSE Put(parent.url_parameters, "version", T(version)),
     body_parameters |-> parent.body_parameters]

\* parent is the pair the parent class's pagination mapping returned
pagination_to_request_parameters(version, parent) ==
    [url_parameters |-> Put(parent.url_parameters, "version", T(version)),
     body_parameters |-> parent.body_parameters]

----------------------------------------------------------------------------
(* SnykV1ImportBackend: import job creation *)

\* mutant: the trailing slashes are kept
rstrip_Keep(s) == s

\* str.rstrip("/")
RECURSIVE rstrip(_)
rstrip(s) ==
    IF s # <<>> /\ s[Len(s)] = "/" THEN rstrip(SubSeq(s, 1, Len(s) - 1)) ELSE s

\* list.index(x), counted from 1; 0 stands for the ValueError of a missing x
index(parts, x) == FirstIndex(parts, x)

\* the routing parameters the destination template
\* org/{org_id}/integrations/{integration_id}/import consumes from the data
create_url(data) ==
    [url |-> <<"org", "/">> \o Get(data, "org_id", Null).v \o <<"/", "integrations", "/">>
             \o Get(data, "integration_id", Null).v \o <<"/", "import">>,
     used_routing_parameters |-> <<"org_id", "integration_id">>]

RECURSIVE DeleteKeys(_, _)
DeleteKeys(d, keys) ==
    IF keys = <<>> THEN d
    ELSE DeleteKeys(Dict(SelectSeq(d.v, LAMBDA it : it.k # Head(keys))), Tail(keys))

\* the request create() hands to execute_request
CreateRequest(data) ==
    [url |-> create_url(data).url, method |-> "POST",
     json |-> DeleteKeys(data, create_url(data).used_routing_parameters)]

\* mutant: the routing parameters are deleted from the caller's own dict
CallerData_Shared(data) == DeleteKeys(data, create_url(data).used_routing_parameters)

\* the caller's dict when create() is over: line 59 binds data to a copy,
\* the deletions of lines 62-63 are made in the copy
CallerData(data) == data

\* mutant: the request is issued a second time
execute_request_Twice(requests, request) == Append(Append(requests, request), request)

\* the one call of execute_request, line 65; requests are the requests
\* issued so far
execute_request(requests, request) == Append(requests, request)

BodyLimit == 200

\* mutant: the status code is left out of the message
NoLocationMessage_NoStatus(response) ==
    <<"Snyk API import endpoint returned no Location header. ",
      "According to API specification, the import endpoint must return a Location header with the job ID. ",
      "Body: ">>
    \o (IF response.text # <<>>
        THEN SubSeq(response.text, 1, IF Len(response.text) < BodyLimit THEN Len(response.text) ELSE BodyLimit)
        ELSE <<"empty">>)

NoLocationMessage(response) ==
    <<"Snyk API import endpoint returned no Location header. ",
      "According to API specification, the import endpoint must return a Location header with the job ID. ",
      "Response status: ", response.status_code, ", Body: ">>
    \o (IF response.text # <<>>
        THEN SubSeq(response.text, 1, IF Len(response.text) < BodyLimit THEN Len(response.text) ELSE BodyLimit)
        ELSE <<"empty">>)

\* mutant: the message leaves out the offending Location value
MalformedLocation_NoLocation(location) ==
    Raise("ValueError",
          <<"Could not extract job ID from Location header: ">>
          \o <<". ", "Expected format: /org/{orgId}/integrations/{integrationId}/import/{jobId}">>)

\* the ValueError of lines 101-105
MalformedLocation(location) ==
    Raise("ValueError",
          <<"Could not extract job ID from Location header: ">> \o location
          \o <<". ", "Expected format: /org/{orgId}/integrations/{integrationId}/import/{jobId}">>)

\* mutant: the integration id is read after the org segment
ParseLocation_OrgTwice(location) ==
    LET parts == Split(rstrip(location), "/")
        import_index == index(parts, <<"import">>)
        org_index == index(parts, <<"org">>)
        integrations_index == index(parts, <<"integrations">>)
    IN IF import_index = 0 \/ ~(import_index < Len(parts)) THEN MalformedLocation(location)
       ELSE IF org_index = 0 \/ integrations_index = 0 THEN MalformedLocation(location)
       ELSE IF ~(org_index < Len(parts) /\ integrations_index < Len(parts))
            THEN MalformedLocation(location)
       ELSE Dict(<<Item("job_id", Str(parts[import_index + 1])),
                   Item("org_id", Str(parts[org_index + 1])),
                   Item("integration_id", Str(parts[org_index + 1]))>>)

\* the record create() builds from a non-empty Location value, or the error
ParseLocation(location) ==
    LET parts == Split(rstrip(location), "/")
        import_index == index(parts, <<"import">>)
        org_index == index(parts, <<"org">>)
        integrations_index == index(parts, <<"integrations">>)
    IN IF import_index = 0 \/ ~(import_index < Len(parts)) THEN MalformedLocation(location)
       ELSE IF org_index = 0 \/ integrations_index = 0 THEN MalformedLocation(location)
       ELSE IF ~(org_index < Len(parts) /\ integrations_index < Len(parts))
            THEN MalformedLocation(location)
       ELSE Dict(<<Item("job_id", Str(parts[import_index + 1])),
                   Item("org_id", Str(parts[org_index + 1])),
                   Item("integration_id", Str(parts[integrations_index + 1]))>>)

\* the result of create() for the response execute_request returned
create(response) ==
    LET location == Get(response.headers, "Location", Str(<<>>))
    IN IF ~Truthy(location)
       THEN Raise("ValueError", NoLocationMessage(response))
       ELSE ParseLocation(location.v)

----------------------------------------------------------------------------
(* SnykMembershipBackend: request bodies of create and update *)

\* a relationship {"data": {"id": id, "type": type}}
Relationship(id, type) == Dict(<<Item("data", Dict(<<Item("id", id), Item("type", T(type))>>))>>)

\* "org_id" in data and data["org_id"]
IsOrgInput(data) == Has(data, "org_id") /\ Truthy(Get(data, "org_id", Null))

\* mutant: a group_id in the data adds the group relationship in either context
map_create_request_BothRelationships(data) ==
    LET is_org == IsOrgInput(data)
        membership_type == IF is_org THEN "org_membership" ELSE "group_membership"
        role_type == IF is_org THEN "org_role" ELSE "group_role"
        relationships ==
            <<Item("user", Relationship(Get(data, "user_id", Null), "user")),
              Item("role", Relationship(Get(data, "role_id", Null), role_type))>>
            \o (IF is_org
                THEN <<Item("org", Relationship(Get(data, "org_id", Null), "org"))>>
                ELSE <<>>)
            \o (IF ~is_org \/ Has(data, "group_id")
                THEN <<Item("group", Relationship(Get(data, "group_id", Null), "group"))>>
                ELSE <<>>)
    IN Dict(<<Item("data", Dict(<<Item("type", T(membership_type)),
                                  Item("relationships", Dict(relationships))>>))>>)

\* mutant: the presence of org_id selects the organization context
map_create_request_Present(data) ==
    LET is_org == Has(data, "org_id")
        membership_type == IF is_org THEN "org_membership" ELSE "group_membership"
        role_type == IF is_org THEN "org_role" ELSE "group_role"
        relationships ==
            <<Item("user", Relationship(Get(data, "user_id", Null), "user")),
              Item("role", Relationship(Get(data, "role_id", Null), role_type))>>
            \o (IF is_org
                THEN <<Item("org", Relationship(Get(data, "org_id", Null), "org"))>>
                ELSE <<Item("group", Relationship(Get(data, "group_id", Null), "group"))>>)
    IN Dict(<<Item("data", Dict(<<Item("type", T(membership_type)),
                                  Item("relationships", Dict(relationships))>>))>>)

map_create_request(data) ==
    LET is_org == IsOrgInput(data)
        membership_type == IF is_org THEN "org_membership" ELSE "group_membership"
        role_type == IF is_org THEN "org_role" ELSE "group_role"
        relationships ==
            <<Item("user", Relationship(Get(data, "user_id", Null), "user")),
              Item("role", Relationship(Get(data, "role_id", Null), role_type))>>
            \o (IF is_org
                THEN <<Item("org", Relationship(Get(data, "org_id", Null), "org"))>>
                ELSE <<Item("group", Relationship(Get(data, "group_id", Null), "group"))>>)
    IN Dict(<<Item("data", Dict(<<Item("type", T(membership_type)),
                                  Item("relationships", Dict(relationships))>>))>>)

\* str(id) of an int or str id
str(id) == IF id.kind = "num" THEN T(ToString(id.v)) ELSE id

\* mutant: the model's org_id is not consulted
map_update_request_InputOnly(id, data, model) ==
    LET is_org == IsOrgInput(data)
        membership_type == IF is_org THEN "org_membership" ELSE "group_membership"
        role_type == IF is_org THEN "org_role" ELSE "group_role"
    IN Dict(<<Item("data", Dict(<<Item("type", T(membership_type)),
                                  Item("id", str(id)),
                                  Item("attributes", EmptyDict),
                                  Item("relationships",
                                       Dict(<<Item("role", Relationship(Get(data, "role_id", Null), role_type))>>))>>))>>)

\* model is [has_org_id, org_id]: whether the instance has the attribute, and its value
map_update_request(id, data, model) ==
    LET is_org == IF ~IsOrgInput(data) /\ model.has_org_id
                  THEN Truthy(model.org_id)
                  ELSE IsOrgInput(data)
        membership_type == IF is_org THEN "org_membership" ELSE "group_membership"
        role_type == IF is_org THEN "org_role" ELSE "group_role"
    IN Dict(<<Item("data", Dict(<<Item("type", T(membership_type)),
                                  Item("id", str(id)),
                                  Item("attributes", EmptyDict),
                                  Item("relationships",
                                       Dict(<<Item("role", Relationship(Get(data, "role_id", Null), role_type))>>))>>))>>)

----------------------------------------------------------------------------
(* Models: the backend each model class is declared with *)

SnykGitHubImport_backend == "SnykV1ImportBackend"
SnykBitbucketCloudImport_backend == "SnykV1Backend"
SnykBitbucketServerImport_backend == "SnykV1Backend"
SnykAzureReposImport_backend == "SnykV1Backend"
SnykDockerHubImport_backend == "SnykV1Backend"
SnykContainerRegistryImport_backend == "SnykV1Backend"
SnykGroupMembership_backend == "SnykBackend"
SnykOrgMembership_backend == "SnykBackend"

backend(model) ==
    CASE model = "SnykGitHubImport" -> SnykGitHubImport_backend
      [] model = "SnykBitbucketCloudImport" -> SnykBitbucketCloudImport_backend
      [] model = "SnykBitbucketServerImport" -> SnykBitbucketServerImport_backend
      [] model = "SnykAzureReposImport" -> SnykAzureReposImport_backend
      [] model = "SnykDockerHubImport" -> SnykDockerHubImport_backend
      [] model = "SnykContainerRegistryImport" -> SnykContainerRegistryImport_backend
      [] model = "SnykGroupMembership" -> SnykGroupMembership_backend
      [] model = "SnykOrgMembership" -> SnykOrgMembership_backend

\* the result of a call made through a model: the class of the backend
\* that served it and what that backend produced
Served(class, result) == [kind |-> "served", backend |-> class, result |-> result]

\* create through the model's backend: SnykV1ImportBackend overrides
\* create, any other class runs the create of the framework's ApiBackend,
\* whose record is built from the response body (parent_record)
model_create(model, response, parent_record) ==
    IF backend(model) = "SnykV1ImportBackend"
    THEN Served(backend(model), create(response))
    ELSE Served(backend(model), parent_record)

\* the request body of a save through the model's backend:
\* SnykMembershipBackend overrides map_create_request and
\* map_update_request, any other class sends the body the framework's
\* ApiBackend builds (parent_body)
model_save_body(model, id, data, instance, parent_body) ==
    IF backend(model) = "SnykMembershipBackend"
    THEN Served(backend(model),
                IF id = Null THEN map_create_request(data) ELSE map_update_request(id, data, instance))
    ELSE Served(backend(model), parent_body)

----------------------------------------------------------------------------
(* ProjectTagList: the column of project tags *)

\* an instance of the dataclass SnykProjectTag
Tag(key, value) == [kind |-> "tag", key |-> key, value |-> value]
IsTag(x) == x.kind = "tag"

\* mutant: key and value change places
to_dict_Swapped(tag) == Dict(<<Item("key", tag.value), Item("value", tag.key)>>)

to_dict(tag) == Dict(<<Item("key", tag.key), Item("value", tag.value)>>)

\* SnykProjectTag(**tag): the generated __init__ takes key and value, and
\* raises TypeError for a missing or an unexpected keyword or a non-mapping
SnykProjectTag(tag) ==
    IF IsDict(tag) /\ Keys(tag) = {"key", "value"}
    THEN Tag(Get(tag, "key", Null), Get(tag, "value", Null))
    ELSE Raise("TypeError", <<"SnykProjectTag">>)

\* json.loads of the texts a backend may store
json_loads(text) ==
    CASE text = <<"[{\"key\": \"env\", \"value\": \"prod\"}]">> ->
            List(<<Dict(<<Item("key", T("env")), Item("value", T("prod"))>>)>>)
      [] text = <<"[{\"value\": \"prod\", \"key\": \"env\"}, {\"key\": \"team\", \"value\": \"\"}]">> ->
            List(<<Dict(<<Item("value", T("prod")), Item("key", T("env"))>>),
                   Dict(<<Item("key", T("team")), Item("value", Str(<<>>))>>)>>)
      [] text = <<"[]">> -> EmptyList
      [] text = <<"[1]">> -> List(<<Num(1)>>)
      [] text = <<"{\"key\": \"env\"}">> -> Dict(<<Item("key", T("env"))>>)
      [] text = <<"5">> -> Num(5)
      [] text = <<"null">> -> Null
      [] OTHER -> Raise("JSONDecodeError", text)

\* the objects a for loop over a decoded JSON value visits
Iterate(json_value) ==
    CASE IsList(json_value) -> json_value
      [] IsDict(json_value) -> List([i \in 1..Len(json_value.v) |-> T(json_value.v[i].k)])
      [] OTHER -> Raise("TypeError", <<"object is not iterable">>)

\* the loop of lines 93-97 over the rest of a list value, tags being the
\* list built so far: dicts are built into tags, tags are kept, anything
\* else is skipped
RECURSIVE TagsOfList(_, _)
TagsOfList(elements, tags) ==
    IF elements = <<>> THEN List(tags)
    ELSE LET tag == Head(elements)
         IN IF IsDict(tag)
            THEN LET built == SnykProjectTag(tag)
                 IN IF IsRaise(built) THEN built
                    ELSE TagsOfList(Tail(elements), Append(tags, built))
            ELSE IF IsTag(tag) THEN TagsOfList(Tail(elements), Append(tags, tag))
            ELSE TagsOfList(Tail(elements), tags)

\* the loop of lines 101-102 over the elements of a decoded string value
RECURSIVE TagsOfJson(_, _)
TagsOfJson(elements, tags) ==
    IF elements = <<>> THEN List(tags)
    ELSE LET built == SnykProjectTag(Head(elements))
         IN IF IsRaise(built) THEN built
            ELSE TagsOfJson(Tail(elements), Append(tags, built))

from_backend(value) ==
    IF ~Truthy(value) THEN EmptyList
    ELSE IF IsList(value) THEN TagsOfList(value.v, <<>>)
    ELSE IF IsStr(value)
         THEN LET json_value == json_loads(value.v)
              IN IF IsRaise(json_value) THEN EmptyList
                 ELSE LET elements == Iterate(json_value)
                      IN IF IsRaise(elements) THEN elements
                         ELSE TagsOfJson(elements.v, <<>>)
    ELSE EmptyList

\* name is the column's name in the model
to_backend(name, data) ==
    IF ~Has(data, name) THEN data
    ELSE LET tag_data == Get(data, name, Null)
         IN IF IsList(tag_data)
            THEN Put(data, name,
                     List([i \in 1..Len(tag_data.v) |->
                             IF IsTag(tag_data.v[i]) THEN to_dict(tag_data.v[i])
                             ELSE tag_data.v[i]]))
            ELSE data

----------------------------------------------------------------------------
(* Inputs: JSON:API resource objects and response bodies *)


SeqsUpTo(S, n) == UNION {[1..k -> S] : k \in 0..n}

DistinctKeys(items) == \A i, j \in 1..Len(items) : items[i].k = items[j].k => i = j

OptItem(key, vals) == {<<>>} \cup {<<Item(key, x)>> : x \in vals}

IdValues == {Null, T("r1")}
RelIds == {T("x1"), T("x2")}
AttrValue == T("a1")
RelNames == {"organization", "org", "group"}

AttributeDicts ==
    {EmptyDict, Dict(<<Item("name", AttrValue)>>),
     Dict(<<Item("name", AttrValue), Item("org_id", AttrValue)>>),
     Dict(<<Item("id", AttrValue), Item("name", AttrValue)>>)}
AttributesValues == AttributeDicts \cup {Null}

RelDataValues ==
    {Null, EmptyDict, Dict(<<Item("data", Null)>>), Dict(<<Item("data", EmptyDict)>>)}
    \cup {Dict(<<Item("data", Dict(<<Item("id", x), Item("type", T("t"))>>))>>) : x \in RelIds}
RelItems == {Item(n, d) : n \in RelNames, d \in RelDataValues}
RelationshipDicts == {Dict(s) : s \in {t \in SeqsUpTo(RelItems, MaxRels) : DistinctKeys(t)}}
RelationshipsValues == RelationshipDicts \cup {Null}

Resource(id, attrs, rels) == Dict(id \o <<Item("type", T("t"))>> \o attrs \o rels)

Resources ==
    {Resource(i, a, r) : i \in OptItem("id", IdValues),
                         a \in OptItem("attributes", AttributesValues),
                         r \in OptItem("relationships", RelationshipsValues)}

\* the elements the list bodies are built from
ListElements ==
    {Resource(i, a, r) : i \in OptItem("id", {T("r1")}),
                         a \in {<<Item("attributes", x)>> : x \in {Dict(<<Item("name", AttrValue)>>),
                                                                   Dict(<<Item("id", AttrValue)>>)}},
                         r \in OptItem("relationships",
                                 {Dict(<<Item("organization",
                                      Dict(<<Item("data", Dict(<<Item("id", T("x1"))>>))>>))>>)})}
    \cup {Null, T("s")}

LinksItem == <<Item("links", EmptyDict)>>

SnykBodies ==
    {Dict(<<Item("data", r)>>) : r \in Resources}
    \cup {Dict(<<Item("data", List(s))>> \o l) : s \in SeqsUpTo(ListElements, MaxList), l \in {<<>>, LinksItem}}
    \cup {Dict(<<Item("data", x)>>) : x \in {Null, T("s"), Num(0), Num(7)}}
    \cup {EmptyDict, Dict(<<Item("errors", List(<<Dict(<<Item("status", T("404"))>>)>>))>>),
          Dict(LinksItem), Null, T("s"), Num(7), EmptyList, List(<<Dict(<<Item("id", T("r1"))>>)>>)}

----------------------------------------------------------------------------
(* Inputs: the next links a server builds, and the responses carrying them *)

MaxParams == 2

ParamNames == {"starting_after", "version", "cursor"}
ParamValues == {<<>>, <<"abc">>, <<"x", "=">>, <<"a", " ", "b">>}
QueryParams == {[name |-> n, value |-> x] : n \in ParamNames, x \in ParamValues}

\* urllib.parse.quote_plus, as the server applies it to a parameter value
quote_plus(s) ==
    [i \in 1..Len(s) |-> IF s[i] = " " THEN "+" ELSE IF s[i] = "=" THEN "%3D" ELSE s[i]]

RECURSIVE JoinParams(_)
JoinParams(params) ==
    IF params = <<>> THEN <<>>
    ELSE <<Head(params).name, "=">> \o quote_plus(Head(params).value)
         \o (IF Len(params) > 1 THEN <<"&">> ELSE <<>>) \o JoinParams(Tail(params))

NextLinks ==
    {[path |-> <<"/rest/orgs">>, query |-> q, params |-> ps, fragment |-> f] :
        q \in BOOLEAN, ps \in SeqsUpTo(QueryParams, MaxParams), f \in BOOLEAN}

BuildUrl(link) ==
    link.path
    \o (IF link.query THEN <<"?">> \o JoinParams(link.params) ELSE <<>>)
    \o (IF link.fragment THEN <<"#", "top">> ELSE <<>>)

NoLink == [path |-> <<>>, query |-> FALSE, params |-> <<>>, fragment |-> FALSE]

LinksValues ==
    {Null, T("s"), EmptyDict, Dict(<<Item("self", T("/rest/orgs"))>>)}
    \cup {Dict(<<Item("next", x)>>) : x \in {Null, Str(<<>>), Num(0), Num(5), EmptyList}}

Response(has_content, json) == [has_content |-> has_content, json |-> json]

\* <<response, the link the server put in links.next>>
CursorResponses ==
    {<<Response(TRUE, Dict(d \o <<Item("links", Dict(<<Item("next", Str(BuildUrl(l)))>>))>>)), l>> :
        d \in {<<>>, <<Item("data", EmptyList)>>}, l \in {k \in NextLinks : k.query \/ k.params = <<>>}}
    \cup {<<Response(TRUE, Dict(d \o l)), NoLink>> :
        d \in {<<>>, <<Item("data", EmptyList)>>}, l \in OptItem("links", LinksValues)}
    \cup {<<Response(TRUE, b), NoLink>> : b \in {Null, EmptyList, T("s"), Num(7)}}
    \cup {<<Response(FALSE, Null), NoLink>>}

----------------------------------------------------------------------------
(* Inputs: legacy response bodies and queries *)

MaxLen == 3
MaxLimit == 3
MaxPage == 3
MaxKeys == 2
MaxSegs == 5
MaxTags == 2
MaxRecords == 6
MaxCursors == 2

\* a list of n records
RecList(n, tag) == List([i \in 1..n |-> Dict(<<Item("id", Num(i)), Item("name", T(tag))>>)])

V1Keys == {"orgs", "results", "items", "total"}
V1Values ==
    {RecList(n, "a") : n \in (MaxLen - 1)..MaxLen} \cup {EmptyList, RecList(1, "b"), Num(3),
     Dict(<<Item("id", Num(1))>>)}
V1Items == {Item(key, x) : key \in V1Keys, x \in V1Values}
V1Dicts == {Dict(items) : items \in {t \in SeqsUpTo(V1Items, MaxKeys) : DistinctKeys(t)}}

\* the three shapes a server wraps a list of records in
Shapes == {"bare", "known", "sole"}
Wrap(shape, records) ==
    CASE shape = "bare" -> records
      [] shape = "known" -> Dict(<<Item("projects", records)>>)
      [] shape = "sole" -> Dict(<<Item("items", records)>>)

PageSizes == (0..MaxLen) \cup {DefaultLimit - 1, DefaultLimit, DefaultLimit + 1}

V1Bodies ==
    V1Dicts \cup {Wrap(sh, RecList(n, "a")) : sh \in Shapes, n \in PageSizes}
    \cup {Null, T("s"), Num(7)}

\* page numbers of the v1 API start at 1; a query without a limit has limit 0 or None
Pages == 1..MaxPage
QueryLimits == {Null} \cup {Num(n) : n \in 0..MaxLimit}
Paginations(parameter_name) ==
    {EmptyDict, Dict(<<Item("other", Num(2))>>)}
    \cup {Dict(<<Item(parameter_name, Num(n))>>) : n \in Pages}
Queries(parameter_name) ==
    {[pagination |-> pg, limit |-> l] : pg \in Paginations(parameter_name), l \in QueryLimits}

\* <<response, shape, number of records>>; shape "none" carries no record list
V1Responses ==
    {<<Response(TRUE, Wrap(sh, RecList(n, "a"))), sh, n>> : sh \in Shapes, n \in PageSizes}
    \cup {<<Response(TRUE, b), "none", 0>> :
            b \in {EmptyDict, Null, T("s"), Dict(<<Item("id", Num(1)), Item("name", T("a"))>>),
                   Dict(<<Item("total", Num(3))>>),
                   Dict(<<Item("items", Num(3)), Item("more", RecList(MaxLen, "a"))>>)}}
    \cup {<<Response(FALSE, Null), "none", 0>>}

----------------------------------------------------------------------------
(* Inputs: request parameters of the parent mapping, import responses *)

ParentUrlParameters ==
    {Dict(a \o b \o c) : a \in OptItem("starting_after", {T("abc")}),
                          b \in OptItem("version", {T("2024-10-15"), T("2025-11-05")}),
                          c \in OptItem("limit", {Num(10)})}
    \cup {Dict(<<Item("limit", Num(10)), Item("cursor", T("abc"))>>)}
ParentBodyParameters == {EmptyDict, Dict(<<Item("limit", Num(10))>>)}
ParentParameters ==
    {[url_parameters |-> u, body_parameters |-> b] : u \in ParentUrlParameters, b \in ParentBodyParameters}

\* a text of n characters
Text(n) == [i \in 1..n |-> "c" \o ToString(i)]
TextLengths == {0, 1, BodyLimit - 1, BodyLimit, BodyLimit + 1}
StatusCodes == {"201", "200", "500"}

LocationPrefixes == {<<>>, <<"/", "v1">>, <<"https:", "/", "/", "api.snyk.io", "/", "v1">>}
Segments == {<<"a1">>, <<"b2">>, <<"org">>, <<"integrations">>, <<"import">>, <<"x", "import">>}

\* <prefix>/org/A/integrations/B/import/C with an optional trailing slash
JobLocation(prefix, A, B, C, slash) ==
    prefix \o <<"/", "org", "/">> \o A \o <<"/", "integrations", "/">> \o B
    \o <<"/", "import", "/">> \o C \o (IF slash THEN <<"/">> ELSE <<>>)

ImportData ==
    {Dict(<<Item("org_id", T("a1")), Item("integration_id", T("b2"))>> \o t) :
        t \in OptItem("target", {Dict(<<Item("owner", T("o")), Item("name", T("n"))>>)})}

ImportResponse(status, location, text) ==
    [status_code |-> status, headers |-> Dict(location), text |-> text]

\* <<response, the parts the server built the Location value from>>
NoJob == [prefix |-> <<>>, A |-> <<>>, B |-> <<>>, C |-> <<>>, slash |-> FALSE]
ImportResponses ==
    {<<ImportResponse("201", <<Item("Location", Str(JobLocation(p, A, B, C, sl)))>>, <<>>),
       [prefix |-> p, A |-> A, B |-> B, C |-> C, slash |-> sl]>> :
          p \in LocationPrefixes, A \in Segments, B \in Segments, C \in Segments, sl \in BOOLEAN}
    \cup {<<ImportResponse(st, l, Text(n)), NoJob>> :
            st \in StatusCodes, l \in OptItem("Location", {Str(<<>>)}), n \in TextLengths}

\* Location values of any shape: a path of up to MaxSegs segments, each a
\* keyword of the expected format or an identifier
PathSegments == {<<"org">>, <<"integrations">>, <<"import">>, <<"a1">>}
Paths == SeqsUpTo(PathSegments, MaxSegs)

RECURSIVE JoinSegments(_)
JoinSegments(segs) ==
    IF segs = <<>> THEN <<>> ELSE <<"/">> \o Head(segs) \o JoinSegments(Tail(segs))

\* /<seg>/<seg>/... with an optional trailing slash; the empty path is "/"
PathLocation(segs, slash) ==
    IF segs = <<>> THEN <<"/">> ELSE JoinSegments(segs) \o (IF slash THEN <<"/">> ELSE <<>>)

\* <<response, the segments the Location value was built from>>
NoPath == [given |-> FALSE, segs |-> <<>>, slash |-> FALSE]
PathResponses ==
    {<<ImportResponse("201", <<Item("Location", Str(PathLocation(s, sl)))>>, <<>>),
       [given |-> TRUE, segs |-> s, slash |-> sl]>> : s \in Paths, sl \in BOOLEAN}

\* membership data: user_id and role_id, org_id and group_id each absent,
\* empty or set, and possibly a field the request has no place for
OrgIds == {Str(<<>>), T("org-1"), Null}
MembershipData ==
    {Dict(u \o r \o o \o g \o n) :
        u \in OptItem("user_id", {T("user-1")}),
        r \in OptItem("role_id", {T("role-1"), T("role-2")}),
        o \in OptItem("org_id", OrgIds),
        g \in OptItem("group_id", {T("grp-1")}),
        n \in OptItem("name", {T("n")})}
    \cup {Dict(<<Item("org_id", T("org-1")), Item("role_id", T("role-1")), Item("user_id", T("user-1"))>>)}

MembershipIds == {T("mem-1"), Num(7), Num(0)}
MembershipModels ==
    {[has_org_id |-> FALSE, org_id |-> Null]}
    \cup {[has_org_id |-> TRUE, org_id |-> o] : o \in {Null, Str(<<>>), T("org-9")}}

MembershipCalls ==
    {[op |-> "SnykMembershipBackend.map_create_request", arg |-> [data |-> d]] : d \in MembershipData}
    \cup {[op |-> "SnykMembershipBackend.map_update_request",
           arg |-> [id |-> i, data |-> d, model |-> mo]] :
             i \in MembershipIds, d \in MembershipData, mo \in MembershipModels}

\* the name the model gives the column
ColumnName == "tags"

\* project tags, and what else a list in the column's place may hold
Tags == {Tag(k, x) : k \in {T("env"), T("team")}, x \in {T("prod"), Str(<<>>)}}
TagElements ==
    Tags \cup {Dict(<<Item("key", T("env")), Item("value", T("prod"))>>),
               Dict(<<Item("value", T("prod")), Item("key", T("team"))>>),
               Dict(<<Item("key", T("env"))>>),
               Num(1)}
TagLists == {List(t) : t \in SeqsUpTo(TagElements, MaxTags)}
JsonTexts ==
    {T("[{\"key\": \"env\", \"value\": \"prod\"}]"),
     T("[{\"value\": \"prod\", \"key\": \"env\"}, {\"key\": \"team\", \"value\": \"\"}]"),
     T("[]"), T("[1]"), T("{\"key\": \"env\"}"), T("5"), T("null"), T("not json"), Str(<<>>)}
BackendValues == TagLists \cup JsonTexts \cup {Null, Num(3), Dict(<<Item("key", T("env"))>>)}
TagData ==
    {Dict(n \o t) : n \in OptItem("name", {T("n")}), t \in OptItem(ColumnName, BackendValues)}

TagCalls ==
    {[op |-> "ProjectTagList.from_backend", arg |-> [value |-> x]] : x \in BackendValues}
    \cup {[op |-> "ProjectTagList.to_backend", arg |-> [data |-> d]] : d \in TagData}

\* calls made through the model classes
ImportJobModels ==
    {"SnykGitHubImport", "SnykBitbucketCloudImport", "SnykBitbucketServerImport",
     "SnykAzureReposImport", "SnykDockerHubImport", "SnykContainerRegistryImport"}
MembershipModelClasses == {"SnykGroupMembership", "SnykOrgMembership"}

\* what the framework's create builds from the body of an import response
ParentRecords == {EmptyDict, Dict(<<Item("id", T("body-1"))>>)}
\* the body the framework's request mapping builds: the data as it is
ParentBody(data) == data

ModelImportResponses ==
    {<<ImportResponse("201", <<Item("Location", Str(JobLocation(p, <<"a1">>, <<"b2">>, C, FALSE)))>>, <<>>),
       [prefix |-> p, A |-> <<"a1">>, B |-> <<"b2">>, C |-> C, slash |-> FALSE]>> :
          p \in LocationPrefixes, C \in {<<"job-1">>, <<"job-2">>}}

ModelCalls ==
    {[op |-> "Model.create",
      arg |-> [model |-> mo, data |-> d, response |-> r[1], job |-> r[2], parent_record |-> pr]] :
        mo \in ImportJobModels, d \in ImportData, r \in ModelImportResponses, pr \in ParentRecords}
    \cup {[op |-> "Model.save",
           arg |-> [model |-> mo, id |-> i, data |-> d, instance |-> inst]] :
             mo \in MembershipModelClasses, i \in {Null, T("mem-1")},
             d \in {x \in MembershipData : Has(x, "user_id") /\ Has(x, "role_id") /\ ~Has(x, "name")},
             inst \in MembershipModels}

----------------------------------------------------------------------------
(* The state machine: a constructed backend, one pending call (operation   *)
(* and arguments) and the step that executes it.                           *)

\* a backend is constructed with the default configuration or a custom one
Configurations ==
    {[api_version |-> "2025-11-05", cursor |-> "starting_after", page |-> "page"],
     [api_version |-> "2025-01-01", cursor |-> "cursor", page |-> "p"]}

Calls ==
    {[op |-> "SnykBackend.map_records_response", arg |-> b] : b \in SnykBodies}
    \cup {[op |-> "SnykBackend.pagination_to_request_parameters", arg |-> pp] : pp \in ParentParameters}
    \cup {[op |-> "SnykV1ImportBackend.create",
           arg |-> [data |-> d, response |-> r[1], job |-> r[2], path |-> NoPath]] :
             d \in ImportData, r \in ImportResponses}
    \cup {[op |-> "SnykV1ImportBackend.create",
           arg |-> [data |-> Dict(<<Item("org_id", T("a1")), Item("integration_id", T("b2"))>>),
                    response |-> r[1], job |-> NoJob, path |-> r[2]]] : r \in PathResponses}
    \cup {[op |-> "SnykBackend.get_next_page_data_from_response",
           arg |-> [response |-> r[1], link |-> r[2]]] : r \in CursorResponses}

V1Calls(parameter_name) ==
    {[op |-> "SnykV1Backend.map_records_response", arg |-> b] : b \in V1Bodies}
    \cup {[op |-> "SnykV1Backend._extract_records_from_response", arg |-> b] : b \in V1Bodies}
    \cup {[op |-> "SnykV1Backend.get_next_page_data_from_response",
           arg |-> [query |-> q, response |-> r[1], shape |-> r[2], count |-> r[3]]] :
             q \in Queries(parameter_name), r \in V1Responses}

Init ==
    /\ \E c \in Configurations :
          /\ api_version = c.api_version
          /\ pagination_parameter_name = c.cursor
          /\ v1_pagination_parameter_name = c.page
    /\ pc = "ready"
    /\ \E c \in Calls \cup V1Calls(v1_pagination_parameter_name) \cup MembershipCalls \cup TagCalls
                   \cup ModelCalls :
          op = c.op /\ arg = c.arg
    /\ ret = Null
    /\ sent = <<>>

MapRecordsResponse ==
    /\ pc = "ready"
    /\ op = "SnykBackend.map_records_response"
    /\ ret' = map_records_response(arg)
    /\ pc' = "done"
    /\ UNCHANGED <<config, op, arg, sent>>

GetNextPageDataFromResponse ==
    /\ pc = "ready"
    /\ op = "SnykBackend.get_next_page_data_from_response"
    /\ ret' = get_next_page_data_from_response(pagination_parameter_name, arg.response)
    /\ pc' = "done"
    /\ UNCHANGED <<config, op, arg, sent>>

V1MapRecordsResponse ==
    /\ pc = "ready"
    /\ op = "SnykV1Backend.map_records_response"
    /\ ret' = V1_map_records_response(arg)
    /\ pc' = "done"
    /\ UNCHANGED <<config, op, arg, sent>>

V1GetNextPageDataFromResponse ==
    /\ pc = "ready"
    /\ op = "SnykV1Backend.get_next_page_data_from_response"
    /\ ret' = V1_get_next_page_data_from_response(v1_pagination_parameter_name, arg.query, arg.response)
    /\ pc' = "done"
    /\ UNCHANGED <<config, op, arg, sent>>

PaginationToRequestParameters ==
    /\ pc = "ready"
    /\ op = "SnykBackend.pagination_to_request_parameters"
    /\ ret' = pagination_to_request_parameters(api_version, arg)
    /\ pc' = "done"
    /\ UNCHANGED <<config, op, arg, sent>>

\* create(), lines 59-65: the request is built and executed
Create ==
    /\ pc = "ready"
    /\ op = "SnykV1ImportBackend.create"
    /\ sent' = execute_request(sent, CreateRequest(arg.data))
    /\ arg' = [arg EXCEPT !.data = CallerData(arg.data)]
    /\ pc' = "executed"
    /\ UNCHANGED <<config, op, ret>>

\* create(), lines 69-114: the Location of the response is read, the record
\* is returned or the error raised
CreateResult ==
    /\ pc = "executed"
    /\ op = "SnykV1ImportBackend.create"
    /\ ret' = create(arg.response)
    /\ pc' = "done"
    /\ UNCHANGED <<config, op, arg, sent>>

MapCreateRequest ==
    /\ pc = "ready"
    /\ op = "SnykMembershipBackend.map_create_request"
    /\ ret' = map_create_request(arg.data)
    /\ pc' = "done"
    /\ UNCHANGED <<config, op, arg, sent>>

MapUpdateRequest ==
    /\ pc = "ready"
    /\ op = "SnykMembershipBackend.map_update_request"
    /\ ret' = map_update_request(arg.id, arg.data, arg.model)
    /\ pc' = "done"
    /\ UNCHANGED <<config, op, arg, sent>>

ExtractRecordsFromResponse ==
    /\ pc = "ready"
    /\ op = "SnykV1Backend._extract_records_from_response"
    /\ ret' = _extract_records_from_response(arg)
    /\ pc' = "done"
    /\ UNCHANGED <<config, op, arg, sent>>

\* a save: the column's value is converted for the backend, which stores it
ToBackend ==
    /\ pc = "ready"
    /\ op = "ProjectTagList.to_backend"
    /\ ret' = to_backend(ColumnName, arg.data)
    /\ pc' = "stored"
    /\ UNCHANGED <<config, op, arg, sent>>

\* a read: of the value of the pending call, or of the value stored by the save
FromBackend ==
    /\ \/ pc = "ready" /\ op = "ProjectTagList.from_backend"
       \/ pc = "stored"
    /\ ret' = from_backend(IF pc = "stored" THEN Get(ret, ColumnName, Null) ELSE arg.value)
    /\ pc' = "done"
    /\ UNCHANGED <<config, op, arg, sent>>

\* create on an import-job model; sent logs the requests that the
\* backends of this package issue themselves
ModelCreate ==
    /\ pc = "ready"
    /\ op = "Model.create"
    /\ sent' = IF backend(arg.model) = "SnykV1ImportBackend"
               THEN Append(sent, CreateRequest(arg.data))
               ELSE sent
    /\ ret' = model_create(arg.model, arg.response, arg.parent_record)
    /\ pc' = "done"
    /\ UNCHANGED <<config, op, arg>>

\* save on a membership model: a create without an id, an update with one
ModelSave ==
    /\ pc = "ready"
    /\ op = "Model.save"
    /\ ret' = model_save_body(arg.model, arg.id, arg.data, arg.instance, ParentBody(arg.data))
    /\ pc' = "done"
    /\ UNCHANGED <<config, op, arg, sent>>

Next ==
    \/ ModelCreate
    \/ ModelSave
    \/ ToBackend
    \/ FromBackend
    \/ ExtractRecordsFromResponse
    \/ MapCreateRequest
    \/ MapUpdateRequest
    \/ MapRecordsResponse
    \/ PaginationToRequestParameters
    \/ Create
    \/ CreateResult
    \/ V1MapRecordsResponse
    \/ V1GetNextPageDataFromResponse
    \/ GetNextPageDataFromResponse

Spec == Init /\ [][Next]_vars

----------------------------------------------------------------------------
(* Paging a legacy query. The caller of the backend (the query loop of    *)
(* the framework) sends a request for the query, hands the response to    *)
(* get_next_page_data_from_response, and repeats with the returned data   *)
(* as the query's pagination until the data is empty. The server holds    *)
(* arg.total records and serves them arg.limit to a page.                 *)

\* the number of records the server has for a page
ServerPageSize(total, limit, page) ==
    LET before == (page - 1) * limit
        left == IF total > before THEN total - before ELSE 0
    IN IF left < limit THEN left ELSE limit

\* the server reads the page number of a request, 1 when it carries none
V1ServerResponse(parameter_name, server, request) ==
    LET page == IF Has(request.pagination, parameter_name)
                THEN Get(request.pagination, parameter_name, Null).v
                ELSE 1
    IN Response(TRUE, Wrap(server.shape, RecList(ServerPageSize(server.total, server.limit, page), "a")))

V1Servers ==
    {[limit |-> l, total |-> n, shape |-> sh] : l \in 1..MaxLimit, n \in 0..MaxRecords, sh \in Shapes}

V1PagingInit ==
    /\ \E c \in Configurations :
          /\ api_version = c.api_version
          /\ pagination_parameter_name = c.cursor
          /\ v1_pagination_parameter_name = c.page
    /\ pc = "request"
    /\ op = "SnykV1Backend.paging"
    /\ arg \in V1Servers
    /\ ret = EmptyDict
    /\ sent = <<>>

\* the request for the query, whose pagination is the data last returned
V1SendRequest ==
    /\ pc = "request"
    /\ op = "SnykV1Backend.paging"
    /\ Len(sent) < MaxRecords + 2
    /\ sent' = Append(sent, [pagination |-> ret])
    /\ pc' = "response"
    /\ UNCHANGED <<config, op, arg, ret>>

V1ReceiveResponse ==
    /\ pc = "response"
    /\ op = "SnykV1Backend.paging"
    /\ LET query == [pagination |-> sent[Len(sent)].pagination, limit |-> Num(arg.limit)]
           response == V1ServerResponse(v1_pagination_parameter_name, arg, sent[Len(sent)])
           next_page_data == V1_get_next_page_data_from_response(v1_pagination_parameter_name,
                                                                 query, response)
       IN /\ ret' = next_page_data
          /\ pc' = IF next_page_data = EmptyDict THEN "done" ELSE "request"
    /\ UNCHANGED <<config, op, arg, sent>>

V1PagingNext == V1SendRequest \/ V1ReceiveResponse

\* the loop is synchronous: a request that can be sent is sent and a
\* response that has arrived is handled
V1PagingSpec == V1PagingInit /\ [][V1PagingNext]_vars /\ WF_vars(V1PagingNext)

----------------------------------------------------------------------------
(* Paging a REST query. The server holds one page more than arg.cursors   *)
(* has cursors: the links.next of page k carries the k-th cursor as       *)
(* starting_after, the links of the last page are of the kind arg.ending. *)

CursorValues == {<<"abc">>, <<"x", "=">>, <<"a", " ", "b">>}
Endings == {"no_links", "no_next", "empty_next", "null_next", "no_query", "no_parameter",
            "empty_parameter"}

NextUrl(params) ==
    BuildUrl([path |-> <<"/rest/orgs">>, query |-> TRUE, params |-> params, fragment |-> FALSE])

LastLinks(ending) ==
    CASE ending = "no_links" -> <<>>
      [] ending = "no_next" -> <<Item("links", Dict(<<Item("self", T("/rest/orgs"))>>))>>
      [] ending = "empty_next" -> <<Item("links", Dict(<<Item("next", Str(<<>>))>>))>>
      [] ending = "null_next" -> <<Item("links", Dict(<<Item("next", Null)>>))>>
      [] ending = "no_query" -> <<Item("links", Dict(<<Item("next", T("/rest/orgs"))>>))>>
      [] ending = "no_parameter" ->
            <<Item("links", Dict(<<Item("next",
                Str(NextUrl(<<[name |-> "version", value |-> <<"2025-11-05">>]>>)))>>))>>
      [] ending = "empty_parameter" ->
            <<Item("links", Dict(<<Item("next",
                Str(NextUrl(<<[name |-> "starting_after", value |-> <<>>]>>)))>>))>>

\* the page a request asks for: the first without a cursor, else the one
\* after the page that handed the cursor out
PageAfter(cursors, request) ==
    IF request.pagination = EmptyDict THEN 1
    ELSE 1 + CHOOSE k \in 1..Len(cursors) : Str(cursors[k]) = request.pagination.v[1].x

ServerResponse(server, request) ==
    LET page == PageAfter(server.cursors, request)
    IN Response(TRUE,
         Dict(<<Item("data", EmptyList)>>
              \o (IF page <= Len(server.cursors)
                  THEN <<Item("links", Dict(<<Item("next",
                          Str(NextUrl(<<[name |-> "version", value |-> <<"2025-11-05">>],
                                        [name |-> "starting_after",
                                         value |-> server.cursors[page]]>>)))>>))>>
                  ELSE LastLinks(server.ending))))

Servers ==
    {[cursors |-> cs, ending |-> e] :
        cs \in {t \in SeqsUpTo(CursorValues, MaxCursors) :
                  \A i, j \in 1..Len(t) : i # j => t[i] # t[j]},
        e \in Endings}

PagingInit ==
    /\ \E c \in Configurations :
          /\ api_version = c.api_version
          /\ pagination_parameter_name = c.cursor
          /\ v1_pagination_parameter_name = c.page
    /\ pc = "request"
    /\ op = "SnykBackend.paging"
    /\ arg \in Servers
    /\ ret = EmptyDict
    /\ sent = <<>>

SendRequest ==
    /\ pc = "request"
    /\ op = "SnykBackend.paging"
    /\ Len(sent) < MaxCursors + 2
    /\ sent' = Append(sent, [pagination |-> ret])
    /\ pc' = "response"
    /\ UNCHANGED <<config, op, arg, ret>>

ReceiveResponse ==
    /\ pc = "response"
    /\ op = "SnykBackend.paging"
    /\ LET response == ServerResponse(arg, sent[Len(sent)])
           next_page_data == get_next_page_data_from_response(pagination_parameter_name, response)
       IN /\ ret' = next_page_data
          /\ pc' = IF next_page_data = EmptyDict THEN "done" ELSE "request"
    /\ UNCHANGED <<config, op, arg, sent>>

PagingNext == SendRequest \/ ReceiveResponse

PagingSpec == PagingInit /\ [][PagingNext]_vars

----------------------------------------------------------------------------
(* A session: any sequence of calls of the operations on one backend      *)
(* instance. arg.fresh holds the configuration the instance was           *)
(* constructed with, arg.call the arguments of the call.                  *)

MaxRequests == 2

\* the configuration attributes of the instance
Self ==
    [api_version |-> api_version, cursor |-> pagination_parameter_name,
     page |-> v1_pagination_parameter_name]

\* mutant: pagination_to_request_parameters keeps the version the parent
\* mapping supplied as the instance's api_version
self_after_KeepsVersion(self, name, call) ==
    IF name = "SnykBackend.pagination_to_request_parameters" /\ Has(call.url_parameters, "version")
    THEN [self EXCEPT !.api_version = Get(call.url_parameters, "version", Null).v[1]]
    ELSE self

\* the configuration attributes when an operation is over: no operation
\* assigns to an attribute of self
self_after(self, name, call) == self

SessionCalls ==
    {[op |-> "SnykBackend.map_records_response", arg |-> b] :
        b \in {EmptyDict, Dict(<<Item("data", List(<<Dict(<<Item("id", T("r1"))>>)>>))>>)}}
    \cup {[op |-> "SnykBackend.get_next_page_data_from_response", arg |-> [response |-> r]] :
            r \in {Response(FALSE, Null),
                   Response(TRUE, Dict(<<Item("links", Dict(<<Item("next",
                       Str(NextUrl(<<[name |-> "starting_after", value |-> <<"abc">>]>>)))>>))>>))}}
    \cup {[op |-> "SnykBackend.pagination_to_request_parameters",
           arg |-> [url_parameters |-> u, body_parameters |-> EmptyDict]] :
            u \in {EmptyDict, Dict(<<Item("version", T("2024-10-15"))>>)}}
    \cup {[op |-> "SnykMembershipBackend.map_create_request", arg |-> [data |-> d]] :
            d \in {Dict(<<Item("user_id", T("user-1")), Item("role_id", T("role-1")),
                          Item("org_id", T("org-1"))>>)}}
    \cup {[op |-> "SnykMembershipBackend.map_update_request",
           arg |-> [id |-> Num(7), data |-> Dict(<<Item("role_id", T("role-2"))>>),
                    model |-> [has_org_id |-> TRUE, org_id |-> T("org-9")]]]}
    \cup {[op |-> "SnykV1ImportBackend.create",
           arg |-> [data |-> Dict(<<Item("org_id", T("a1")), Item("integration_id", T("b2"))>>),
                    response |-> r]] :
            r \in {ImportResponse("201", <<>>, <<>>),
                   ImportResponse("201", <<Item("Location",
                       Str(JobLocation(<<>>, <<"a1">>, <<"b2">>, <<"job-1">>, FALSE)))>>, <<>>)}}
    \cup {[op |-> "SnykV1Backend.map_records_response", arg |-> b] :
            b \in {Wrap("known", RecList(1, "a"))}}
    \cup {[op |-> "SnykV1Backend.get_next_page_data_from_response",
           arg |-> [query |-> [pagination |-> EmptyDict, limit |-> Num(1)],
                    response |-> Response(TRUE, RecList(n, "a"))]] : n \in 0..1}

SessionInit ==
    /\ \E c \in Configurations :
          /\ api_version = c.api_version
          /\ pagination_parameter_name = c.cursor
          /\ v1_pagination_parameter_name = c.page
          /\ arg = [fresh |-> c, call |-> Null]
    /\ pc = "idle"
    /\ op = "none"
    /\ ret = Null
    /\ sent = <<>>

\* the caller makes the next call; a session issues at most MaxRequests requests
SessionCall ==
    /\ pc \in {"idle", "done"}
    /\ \E c \in SessionCalls :
          /\ c.op = "SnykV1ImportBackend.create" => Len(sent) < MaxRequests
          /\ op' = c.op
          /\ arg' = [arg EXCEPT !.call = c.arg]
    /\ pc' = "ready"
    /\ UNCHANGED <<config, ret, sent>>

\* the pending call of the operation name runs and returns result
SessionStep(name, result) ==
    /\ pc = "ready"
    /\ op = name
    /\ ret' = result
    /\ LET after == self_after(Self, name, arg.call)
       IN /\ api_version' = after.api_version
          /\ pagination_parameter_name' = after.cursor
          /\ v1_pagination_parameter_name' = after.page
    /\ pc' = "done"
    /\ UNCHANGED <<op, arg>>

SessionMapRecordsResponse ==
    /\ SessionStep("SnykBackend.map_records_response", map_records_response(arg.call))
    /\ UNCHANGED sent

SessionGetNextPageDataFromResponse ==
    /\ SessionStep("SnykBackend.get_next_page_data_from_response",
                   get_next_page_data_from_response(pagination_parameter_name, arg.call.response))
    /\ UNCHANGED sent

SessionPaginationToRequestParameters ==
    /\ SessionStep("SnykBackend.pagination_to_request_parameters",
                   pagination_to_request_parameters(api_version, arg.call))
    /\ UNCHANGED sent

SessionMapCreateRequest ==
    /\ SessionStep("SnykMembershipBackend.map_create_request", map_create_request(arg.call.data))
    /\ UNCHANGED sent

SessionMapUpdateRequest ==
    /\ SessionStep("SnykMembershipBackend.map_update_request",
                   map_update_request(arg.call.id, arg.call.data, arg.call.model))
    /\ UNCHANGED sent

SessionCreate ==
    /\ SessionStep("SnykV1ImportBackend.create", create(arg.call.response))
    /\ sent' = execute_request(sent, CreateRequest(arg.call.data))

SessionV1MapRecordsResponse ==
    /\ SessionStep("SnykV1Backend.map_records_response", V1_map_records_response(arg.call))
    /\ UNCHANGED sent

SessionV1GetNextPageDataFromResponse ==
    /\ SessionStep("SnykV1Backend.get_next_page_data_from_response",
                   V1_get_next_page_data_from_response(v1_pagination_parameter_name,
                                                       arg.call.query, arg.call.response))
    /\ UNCHANGED sent

SessionNext ==
    \/ SessionCall
    \/ SessionMapRecordsResponse
    \/ SessionGetNextPageDataFromResponse
    \/ SessionPaginationToRequestParameters
    \/ SessionMapCreateRequest
    \/ SessionMapUpdateRequest
    \/ SessionCreate
    \/ SessionV1MapRecordsResponse
    \/ SessionV1GetNextPageDataFromResponse

SessionSpec == SessionInit /\ [][SessionNext]_vars

----------------------------------------------------------------------------
(* Properties of SnykBackend.map_records_response *)

MapDone == pc = "done" /\ op = "SnykBackend.map_records_response"

\* the resource objects of a body and the records they are flattened to,
\* as pairs <<resource, record>>, when the body is {data: [...]}/{data: {...}}
\* with every element a resource object
AllResourceObjects(data) == \A i \in 1..Len(data.v) : IsDict(data.v[i])

\* a relationship entry whose data is an object (a missing data counts as {})
StoresField(rel_data) == IsDict(rel_data) /\ IsDict(Get(rel_data, "data", EmptyDict))

\* key is written by some relationship of the resource
OverwrittenByRelationship(resource, key) ==
    LET relationships == Get(resource, "relationships", EmptyDict)
    IN IsDict(relationships)
       /\ \E i \in 1..Len(relationships.v) :
             StoresField(relationships.v[i].x) /\ RelField(relationships.v[i].k) = key

AttributesOf(resource) ==
    LET attributes == Get(resource, "attributes", EmptyDict)
    IN IF IsDict(attributes) THEN attributes ELSE EmptyDict

\* record carries the resource's id and every attribute, as the claim words it
CarriesIdAndAttributes(record, resource) ==
    /\ IsDict(record)
    /\ Get(record, "id", Absent) = Get(resource, "id", Null)
    /\ \A key \in Keys(AttributesOf(resource)) :
          Get(record, key, Absent) = Get(AttributesOf(resource), key, Absent)

\* the same, except where an attribute named id or a relationship field wins
CarriesIdAndAttributesAmended(record, resource) ==
    /\ IsDict(record)
    /\ Get(record, "id", Absent) =
          IF Has(AttributesOf(resource), "id")
          THEN Get(AttributesOf(resource), "id", Absent)
          ELSE Get(resource, "id", Null)
    /\ \A key \in Keys(AttributesOf(resource)) :
          ~OverwrittenByRelationship(resource, key)
             => Get(record, key, Absent) = Get(AttributesOf(resource), key, Absent)

SameCountAndOrder(Carries(_, _)) ==
    MapDone /\ IsDict(arg) /\ Has(arg, "data") =>
        LET data == Get(arg, "data", Absent)
        IN /\ (IsList(data) /\ AllResourceObjects(data)) =>
                 /\ IsList(ret)
                 /\ Len(ret.v) = Len(data.v)
                 /\ \A i \in 1..Len(data.v) : Carries(ret.v[i], data.v[i])
           /\ IsDict(data) =>
                 /\ IsList(ret)
                 /\ Len(ret.v) = 1
                 /\ Carries(ret.v[1], data)

\* C1 as stated: N resource objects give N flat records in the same order,
\* record i holding id = ri.id and every key/value of ri.attributes; a single
\* resource object gives exactly one such record.
C1_AsStated == SameCountAndOrder(CarriesIdAndAttributes)

\* C1 (amended): N resource objects give N flat records in the same order, a
\* single resource object gives one; record i holds every key/value of
\* ri.attributes except the keys that a relationship field `<mapped>_id` of
\* the same resource overwrites, and its id is ri.id unless ri.attributes has
\* its own `id` key, whose value then replaces it.
C1_FlatRecords == SameCountAndOrder(CarriesIdAndAttributesAmended)

C1_Witness ==
    /\ MapDone /\ IsDict(arg) /\ Has(arg, "data")
    /\ IsList(Get(arg, "data", Absent))
    /\ Len(Get(arg, "data", Absent).v) = 2
    /\ AllResourceObjects(Get(arg, "data", Absent))
    /\ Get(arg, "data", Absent).v[1] # Get(arg, "data", Absent).v[2]
    /\ Has(AttributesOf(Get(arg, "data", Absent).v[2]), "name")
    /\ Get(ret.v[2], "name", Absent) = AttrValue

\* the resource objects a body carries, each with its position in ret
ResourcePositions ==
    IF ~(IsDict(arg) /\ Has(arg, "data")) THEN {}
    ELSE LET data == Get(arg, "data", Absent)
         IN IF IsDict(data) THEN {<<data, 1>>}
            ELSE IF IsList(data)
                 THEN {<<data.v[i], i>> : i \in {j \in 1..Len(data.v) : IsDict(data.v[j])}}
                 ELSE {}

RelationshipItems(resource) ==
    LET relationships == Get(resource, "relationships", EmptyDict)
    IN IF IsDict(relationships) THEN relationships.v ELSE <<>>

HasObjectDataWithId(rel_data) ==
    IsDict(rel_data) /\ Has(rel_data, "data") /\ IsDict(Get(rel_data, "data", Absent))
    /\ Has(Get(rel_data, "data", Absent), "id")

MappedName(name) == IF name = "organization" THEN "org" ELSE name

C6_PassThrough ==
    MapDone =>
        LET jsonApi == /\ IsDict(arg) /\ Has(arg, "data")
                       /\ (IsList(Get(arg, "data", Absent)) \/ IsDict(Get(arg, "data", Absent)))
        IN ~jsonApi => ret = arg

----------------------------------------------------------------------------
(* Properties of SnykBackend.get_next_page_data_from_response *)

CursorDone == pc = "done" /\ op = "SnykBackend.get_next_page_data_from_response"

\* the parameters named starting_after with a non-empty value, in URL order
CursorParams(link) ==
    SelectSeq(link.params, LAMBDA q : q.name = "starting_after" /\ q.value # <<>>)

HasNextUrl(response) ==
    /\ response.has_content /\ IsDict(response.json)
    /\ IsDict(Get(response.json, "links", Null))
    /\ IsStr(Get(Get(response.json, "links", Null), "next", Null))
    /\ Get(Get(response.json, "links", Null), "next", Null).v # <<>>

NoNextUrl(response) ==
    \/ ~response.has_content
    \/ /\ IsDict(response.json)
       /\ \/ ~Has(response.json, "links")
          \/ /\ IsDict(Get(response.json, "links", Null))
             /\ \/ ~Has(Get(response.json, "links", Null), "next")
                \/ Get(Get(response.json, "links", Null), "next", Null) = Str(<<>>)

\* C3: a links.next URL whose query string carries starting_after=CURSOR
\* (CURSOR non-empty; the first such parameter, URL-decoded) gives exactly
\* {pagination_parameter_name: CURSOR}, the URL parameter read being
\* starting_after whatever name is configured; an empty body, a body without
\* links, links without next and an empty next give {}.
C3_NextCursor ==
    CursorDone =>
        /\ (HasNextUrl(arg.response) /\ CursorParams(arg.link) # <<>>) =>
              ret = Dict(<<Item(pagination_parameter_name, Str(CursorParams(arg.link)[1].value))>>)
        /\ NoNextUrl(arg.response) => ret = EmptyDict

C3_Witness ==
    /\ CursorDone
    /\ pagination_parameter_name = "cursor"
    /\ HasNextUrl(arg.response)
    /\ Len(arg.link.params) = 2
    /\ arg.link.params[1].name = "cursor"
    /\ arg.link.params[2] = [name |-> "starting_after", value |-> <<"x", "=">>]
    /\ ret = Dict(<<Item("cursor", Str(<<"x", "=">>))>>)

----------------------------------------------------------------------------
(* Properties of SnykV1Backend *)

V1PageDone == pc = "done" /\ op = "SnykV1Backend.get_next_page_data_from_response"
V1MapDone == pc = "done" /\ op = "SnykV1Backend.map_records_response"

QueryPage(query) ==
    IF Has(query.pagination, v1_pagination_parameter_name)
    THEN Get(query.pagination, v1_pagination_parameter_name, Null).v
    ELSE 1
QueryLimit(query) ==
    IF query.limit = Null \/ query.limit = Num(0) THEN 100 ELSE query.limit.v

KnownKeys == {"orgs", "projects", "snapshots", "members", "integrations", "results"}
Rank(key) ==
    CASE key = "orgs" -> 1 [] key = "projects" -> 2 [] key = "snapshots" -> 3
      [] key = "members" -> 4 [] key = "integrations" -> 5 [] key = "results" -> 6

ListKeys(body) == {key \in Keys(body) \cap KnownKeys : IsList(Get(body, key, Null))}

\* C5: a list body is handed over as it is; a dict hands over the list under
\* the first of orgs, projects, snapshots, members, integrations, results
\* present with a list value; else the list under its only key; else the
\* body itself, as a single record.
C5_LegacyRecords ==
    V1MapDone =>
        IF ~IsDict(arg) THEN ret = arg
        ELSE IF ListKeys(arg) # {}
             THEN \E key \in ListKeys(arg) :
                     /\ \A other \in ListKeys(arg) : Rank(key) <= Rank(other)
                     /\ ret = Get(arg, key, Null)
             ELSE IF Cardinality(Keys(arg)) = 1 /\ \E key \in Keys(arg) : IsList(Get(arg, key, Null))
                  THEN \E key \in Keys(arg) : ret = Get(arg, key, Null)
                  ELSE ret = arg

C5_Witness ==
    /\ V1MapDone
    /\ IsDict(arg)
    /\ Len(arg.v) = 2
    /\ arg.v[1] = Item("results", RecList(1, "b"))
    /\ arg.v[2] = Item("orgs", RecList(2, "a"))
    /\ ret = RecList(2, "a")

----------------------------------------------------------------------------
(* Properties of SnykBackend.pagination_to_request_parameters *)

ParamsDone == pc = "done" /\ op = "SnykBackend.pagination_to_request_parameters"

\* C7: the url parameters returned hold version = api_version and every url
\* parameter of the parent mapping (unchanged, but for a parent-supplied
\* version, which is overwritten); the body parameters are returned unchanged.
C7_VersionParameter ==
    ParamsDone =>
        /\ Get(ret.url_parameters, "version", Absent) = T(api_version)
        /\ Keys(ret.url_parameters) = Keys(arg.url_parameters) \cup {"version"}
        /\ \A key \in Keys(arg.url_parameters) \ {"version"} :
              Get(ret.url_parameters, key, Absent) = Get(arg.url_parameters, key, Absent)
        /\ ret.body_parameters = arg.body_parameters

C7_Witness ==
    /\ ParamsDone
    /\ api_version = "2025-01-01"
    /\ Get(arg.url_parameters, "version", Absent) = T("2024-10-15")
    /\ Has(arg.url_parameters, "starting_after")
    /\ Get(ret.url_parameters, "version", Absent) = T("2025-01-01")
    /\ Get(ret.url_parameters, "starting_after", Absent) = T("abc")

----------------------------------------------------------------------------
(* Properties of SnykV1ImportBackend.create *)

CreateDone == pc = "done" /\ op = "SnykV1ImportBackend.create"

\* the response carried a Location built as <prefix>/org/A/integrations/B/import/C
JobLocationGiven == CreateDone /\ arg.job # NoJob

JobRecord(job) ==
    /\ IsDict(ret)
    /\ Keys(ret) = {"job_id", "org_id", "integration_id"}
    /\ Get(ret, "job_id", Absent) = Str(job.C)
    /\ Get(ret, "org_id", Absent) = Str(job.A)
    /\ Get(ret, "integration_id", Absent) = Str(job.B)

Contains(message, s) ==
    \E i \in 0..(Len(message) - Len(s)) : SubSeq(message, i + 1, i + Len(s)) = s

First200(text) == [i \in 1..(IF Len(text) < 200 THEN Len(text) ELSE 200) |-> text[i]]

\* C10: without a Location header, or with an empty one, create raises
\* ValueError with a message holding the response's status code and the
\* first 200 characters of its body, the word `empty` for an empty body.
C10_NoLocation ==
    (CreateDone /\ Get(arg.response.headers, "Location", Str(<<>>)) = Str(<<>>)) =>
        /\ IsRaise(ret)
        /\ ret.type = "ValueError"
        /\ Contains(ret.v, <<arg.response.status_code>>)
        /\ Contains(ret.v, IF arg.response.text = <<>> THEN <<"empty">>
                           ELSE First200(arg.response.text))

C10_Witness ==
    /\ CreateDone
    /\ ~Has(arg.response.headers, "Location")
    /\ Len(arg.response.text) = 201
    /\ arg.response.status_code = "500"
    /\ IsRaise(ret)
    /\ Contains(ret.v, <<"500">>)
    /\ Contains(ret.v, <<"c199", "c200">>)
    /\ ~Contains(ret.v, <<"c201">>)
    /\ Len(sent) = 1

----------------------------------------------------------------------------
(* C11, C12: Location values that are not of the expected shape *)

\* create has run on a response whose Location is the path arg.path
PathDone == CreateDone /\ arg.path.given

LocationGiven == PathLocation(arg.path.segs, arg.path.slash)

\* the keyword is a segment of the path
HasSegment(segs, keyword) == \E i \in 1..Len(segs) : segs[i] = <<keyword>>

\* the first segment equal to the keyword is followed by another segment
FirstIsFollowed(segs, keyword) ==
    \E i \in 1..(Len(segs) - 1) :
        segs[i] = <<keyword>> /\ \A j \in 1..(i - 1) : segs[j] # <<keyword>>

\* the segment after the first segment equal to the keyword
AfterFirst(segs, keyword) ==
    segs[1 + CHOOSE i \in 1..(Len(segs) - 1) :
                segs[i] = <<keyword>> /\ \A j \in 1..(i - 1) : segs[j] # <<keyword>>]

CouldNotExtract ==
    /\ IsRaise(ret)
    /\ ret.type = "ValueError"
    /\ ret.v[1] = "Could not extract job ID from Location header: "

ContainsShape(segs) ==
    \E i \in 1..(Len(segs) - 5) :
        /\ segs[i] = <<"org">>
        /\ segs[i + 2] = <<"integrations">>
        /\ segs[i + 4] = <<"import">>

NamesLocationAndFormat ==
    /\ IsRaise(ret)
    /\ ret.type = "ValueError"
    /\ Contains(ret.v, LocationGiven)
    /\ Contains(ret.v, <<"Expected format: /org/{orgId}/integrations/{integrationId}/import/{jobId}">>)

----------------------------------------------------------------------------
(* C13, C14: membership request bodies *)

CreateRequestDone == pc = "done" /\ op = "SnykMembershipBackend.map_create_request"
UpdateRequestDone == pc = "done" /\ op = "SnykMembershipBackend.map_update_request"

\* {"data": {"id": id, "type": type}}
RelationshipTo(id, type) ==
    Dict(<<Item("data", Dict(<<Item("id", id), Item("type", Str(<<type>>))>>))>>)

\* the keys of a dict in their order
KeyOrder(d) == [i \in 1..Len(d.v) |-> d.v[i].k]

TruthyOrgId(data) ==
    Has(data, "org_id") /\ Get(data, "org_id", Null) \notin {Null, Str(<<>>), Num(0)}

\* C13: given user_id, role_id and exactly one of org_id and group_id,
\* map_create_request returns {data: {type, relationships}} without
\* attributes; a truthy org_id gives org_membership, role type org_role and
\* an org relationship, anything else group_membership, group_role and a
\* group relationship carrying group_id; the user relationship carries
\* user_id with type user.
C13_CreateBody ==
    (/\ CreateRequestDone
     /\ Has(arg.data, "user_id") /\ Has(arg.data, "role_id")
     /\ Has(arg.data, "org_id") # Has(arg.data, "group_id"))
    => LET context == IF TruthyOrgId(arg.data) THEN "org" ELSE "group"
           data == Get(ret, "data", Null)
           relationships == Get(data, "relationships", Null)
       IN /\ KeyOrder(ret) = <<"data">>
          /\ KeyOrder(data) = <<"type", "relationships">>
          /\ Get(data, "type", Null) = Str(<<context \o "_membership">>)
          /\ KeyOrder(relationships) = <<"user", "role", context>>
          /\ Get(relationships, "user", Null)
                = RelationshipTo(Get(arg.data, "user_id", Null), "user")
          /\ Get(relationships, "role", Null)
                = RelationshipTo(Get(arg.data, "role_id", Null), context \o "_role")
          /\ Get(relationships, context, Null)
                = RelationshipTo(Get(arg.data, context \o "_id", Null), context)

C13_Witness ==
    /\ CreateRequestDone
    /\ KeyOrder(arg.data) = <<"user_id", "role_id", "org_id", "name">>
    /\ Get(arg.data, "org_id", Null) = Str(<<>>)
    /\ Get(Get(ret, "data", Null), "type", Null) = T("group_membership")
    /\ Get(Get(Get(ret, "data", Null), "relationships", Null), "group", Null)
          = RelationshipTo(Null, "group")

\* C14: map_update_request returns {data: {type, id: str(id), attributes:
\* {}, relationships: {role: {data: {id: role_id, type: role_type}}}}}; the
\* context is org when the input has a truthy org_id, else org when the
\* model has a truthy org_id attribute, else group; no other input field
\* appears in the output.
C14_UpdateBody ==
    UpdateRequestDone =>
       LET context == IF TruthyOrgId(arg.data) THEN "org"
                      ELSE IF arg.model.has_org_id /\ arg.model.org_id \notin {Null, Str(<<>>)}
                           THEN "org"
                           ELSE "group"
           id == IF arg.id \in {Num(0), Num(7)}
                 THEN Str(<<IF arg.id = Num(7) THEN "7" ELSE "0">>)
                 ELSE arg.id
       IN ret = Dict(<<Item("data", Dict(<<
                  Item("type", Str(<<context \o "_membership">>)),
                  Item("id", id),
                  Item("attributes", Dict(<<>>)),
                  Item("relationships", Dict(<<
                      Item("role", RelationshipTo(Get(arg.data, "role_id", Null),
                                                  context \o "_role"))>>))>>))>>)

C14_Witness ==
    /\ UpdateRequestDone
    /\ arg.id = Num(7)
    /\ ~Has(arg.data, "org_id")
    /\ Has(arg.data, "group_id") /\ Has(arg.data, "name") /\ Has(arg.data, "user_id")
    /\ arg.model = [has_org_id |-> TRUE, org_id |-> T("org-9")]
    /\ Get(Get(ret, "data", Null), "type", Null) = T("org_membership")
    /\ Get(Get(ret, "data", Null), "id", Null) = T("7")
    /\ KeyOrder(Get(Get(ret, "data", Null), "relationships", Null)) = <<"role">>

----------------------------------------------------------------------------
(* C15: the record list the v1 pagination check counts *)

ExtractDone == pc = "done" /\ op = "SnykV1Backend._extract_records_from_response"

\* the body is the dict {key: x}
SoleKey(body) == IsDict(body) /\ Len(body.v) = 1

\* C15: _extract_records_from_response returns R for the bare list R, for
\* {k: R} with k a known wrapper key and for {k: R} with k any other sole
\* key; it returns [] for an empty dict, a single-key dict with a non-list
\* value, a multi-key dict without a known list wrapper and a value that is
\* neither list nor dict.
C15_SameList ==
    ExtractDone =>
        /\ IsList(arg) => ret = arg
        /\ (SoleKey(arg) /\ IsList(arg.v[1].x)) => ret = arg.v[1].x
        /\ (\/ arg = Dict(<<>>)
            \/ SoleKey(arg) /\ ~IsList(arg.v[1].x)
            \/ IsDict(arg) /\ Len(arg.v) > 1 /\ ListKeys(arg) = {}
            \/ ~IsList(arg) /\ ~IsDict(arg))
           => ret = List(<<>>)

C15_Witness ==
    /\ ExtractDone
    /\ arg = Dict(<<Item("items", RecList(MaxLen, "a"))>>)
    /\ ret = RecList(MaxLen, "a")

----------------------------------------------------------------------------
(* C16: project tags written to the backend and read back *)

RoundTripDone == pc = "done" /\ op = "ProjectTagList.to_backend"

\* the column held a list of SnykProjectTag instances when it was saved
TagsGiven ==
    /\ Has(arg.data, "tags")
    /\ IsList(Get(arg.data, "tags", Null))
    /\ \A i \in 1..Len(Get(arg.data, "tags", Null).v) : Get(arg.data, "tags", Null).v[i].kind = "tag"

\* C16: a tag rebuilt from its to_dict() equals the tag, and from_backend of
\* the list to_backend produced is the list of tags that was saved, in the
\* same order.
C16_RoundTrip ==
    (RoundTripDone /\ TagsGiven) =>
        /\ ret = Get(arg.data, "tags", Null)
        /\ \A i \in 1..Len(Get(arg.data, "tags", Null).v) :
              LET t == Get(arg.data, "tags", Null).v[i]
              IN /\ SnykProjectTag(to_dict(t)) = t
                 /\ ret.v[i].key = t.key /\ ret.v[i].value = t.value

C16_Witness ==
    /\ RoundTripDone
    /\ Get(arg.data, "tags", Null)
          = List(<<[kind |-> "tag", key |-> Str(<<"team">>), value |-> Str(<<>>)],
                   [kind |-> "tag", key |-> Str(<<"env">>), value |-> Str(<<"prod">>)]>>)
    /\ ret = Get(arg.data, "tags", Null)

----------------------------------------------------------------------------
(* C17, C18: the backends behind the import-job and membership models *)

ModelCreateDone == pc = "done" /\ op = "Model.create"
ModelSaveDone == pc = "done" /\ op = "Model.save"

\* C17: each import-job creation model is bound to a SnykV1ImportBackend,
\* so that create on it recovers the job id from the Location header and
\* not from the response body.
C17_ImportBackend ==
    ModelCreateDone =>
        /\ ret.backend = "SnykV1ImportBackend"
        /\ ret.result = Dict(<<Item("job_id", Str(arg.job.C)), Item("org_id", Str(arg.job.A)),
                               Item("integration_id", Str(arg.job.B))>>)

\* C18: SnykGroupMembership and SnykOrgMembership are configured with
\* SnykMembershipBackend, so that a create or an update through them sends
\* the relationships-only request body.
C18_MembershipBackend ==
    ModelSaveDone =>
        /\ ret.backend = "SnykMembershipBackend"
        /\ Has(ret.result, "data")
        /\ Has(Get(ret.result, "data", Null), "relationships")

----------------------------------------------------------------------------
(* C19: paging a legacy query *)

\* the page the k-th request asks for, 1 when it carries no page number
RequestedPage(k) ==
    IF sent[k].pagination = Dict(<<>>) THEN 1
    ELSE IF sent[k].pagination.v[1].k = v1_pagination_parameter_name
         THEN sent[k].pagination.v[1].x.v
         ELSE 0

\* the number of the N records that fall on page k, L to a page
OnPage(N, L, k) ==
    IF N >= k * L THEN L ELSE IF N > (k - 1) * L THEN N - (k - 1) * L ELSE 0

V1PagingSteps ==
    /\ \A k \in 1..Len(sent) : RequestedPage(k) = k
    /\ \A k \in 1..(Len(sent) - 1) : OnPage(arg.total, arg.limit, k) = arg.limit
    /\ Len(sent) <= (arg.total \div arg.limit) + 1
    /\ pc = "done" =>
          /\ Len(sent) = (arg.total \div arg.limit) + 1
          /\ OnPage(arg.total, arg.limit, Len(sent)) < arg.limit
          /\ (arg.total > 0 /\ OnPage(arg.total, arg.limit, Len(sent)) = 0)
                <=> (arg.total > 0 /\ arg.total % arg.limit = 0)

\* C19: paging a legacy query with limit L >= 1 from page 1 against a
\* server of N records, L to a page, requests the pages 1, 2, 3, ... one
\* after the other, stops after the first page of fewer than L records, and
\* so ends after exactly floor(N/L) + 1 requests, the last one for an empty
\* page exactly when N is a positive multiple of L.
C19_V1Paging == [](V1PagingSteps) /\ <>(pc = "done")

C19_Witness ==
    /\ pc = "done"
    /\ op = "SnykV1Backend.paging"
    /\ arg.total = 6 /\ arg.limit = 3 /\ arg.shape = "sole"
    /\ Len(sent) = 3
    /\ sent[3].pagination = Dict(<<Item(v1_pagination_parameter_name, Num(3))>>)

----------------------------------------------------------------------------
(* C20: paging a REST query *)

\* request k carries the cursor of response k - 1 under the given name
CarriesCursors(name) ==
    \A k \in 2..Len(sent) :
        /\ k - 1 <= Len(arg.cursors)
        /\ sent[k].pagination = Dict(<<Item(name, Str(arg.cursors[k - 1]))>>)

\* the response to the k-th request is the first whose links.next has no
\* non-empty starting_after: it is the response of the server's last page
FirstWithoutCursor(k) == k = Len(arg.cursors) + 1

\* paging goes on after every earlier response, ends at that response, and
\* no request follows it
EndsAtLastPage ==
    /\ \A k \in 1..Len(sent) : k <= Len(arg.cursors) + 1
    /\ pc = "done" => (sent # <<>> /\ FirstWithoutCursor(Len(sent)))
    /\ pc = "request" => (sent = <<>> \/ ~FirstWithoutCursor(Len(sent)))

\* C20 as stated: request k+1 carries as starting_after the cursor
\* extracted from response k, and paging ends at the first response whose
\* links.next is absent, empty or without a non-empty starting_after.
C20_AsStated == CarriesCursors("starting_after") /\ EndsAtLastPage

\* C20 (amended): request k+1 carries under the configured
\* pagination_parameter_name (starting_after by default) the cursor
\* extracted from response k, and paging ends at the first response whose
\* links.next is absent, empty or without a non-empty starting_after: no
\* request is issued after that response.
C20_Paging == CarriesCursors(pagination_parameter_name) /\ EndsAtLastPage

C20_Witness ==
    /\ pc = "done"
    /\ op = "SnykBackend.paging"
    /\ pagination_parameter_name = "cursor"
    /\ arg.cursors = <<<<"x", "=">>, <<"abc">>>>
    /\ arg.ending = "empty_parameter"
    /\ Len(sent) = 3
    /\ sent[2].pagination = Dict(<<Item("cursor", Str(<<"x", "=">>))>>)
    /\ sent[3].pagination = Dict(<<Item("cursor", Str(<<"abc">>))>>)

----------------------------------------------------------------------------
(* C21, C25: the request of SnykV1ImportBackend.create *)

CreateCall == op = "SnykV1ImportBackend.create"

\* the step of create that reads the Location and returns or raises
ExaminesLocation == CreateCall /\ pc' = "done" /\ pc # "done"

\* C21: every call of create issues exactly one request, and issues it
\* before the Location header is examined: no request is out before the
\* call starts, the step that examines the Location (and returns a record or
\* raises ValueError) finds the one request already sent and sends none,
\* and no request follows it.
C21_OneRequest ==
    [][/\ (CreateCall /\ pc = "ready") => sent = <<>>
       /\ ExaminesLocation => (Len(sent) = 1 /\ sent' = sent)
       /\ (CreateCall /\ pc = "done") => sent' = sent
       /\ (CreateCall /\ pc' = "done") => Len(sent') = 1]_vars

C21_Witness ==
    /\ CreateDone
    /\ arg.path.given
    /\ arg.path.segs = <<<<"import">>, <<"a1">>>>
    /\ CouldNotExtract
    /\ Len(sent) = 1
    /\ sent[1].method = "POST"

\* data without the routing parameters of the import destination
WithoutRouting(data) ==
    Dict(SelectSeq(data.v, LAMBDA it : it.k \notin {"org_id", "integration_id"}))

\* C25: the payload of the request create sends is the input data minus
\* exactly the routing parameters the URL template consumed (org_id and
\* integration_id), and the caller's input dict is the same after every
\* step of create, whether it returns a record or raises.
C25_Payload ==
    [][CreateCall =>
          /\ arg'.data = arg.data
          /\ sent' # <<>> => sent'[1].json = WithoutRouting(arg.data)]_vars

C25_Witness ==
    /\ CreateDone
    /\ IsRaise(ret)
    /\ arg.data = Dict(<<Item("org_id", T("a1")), Item("integration_id", T("b2")),
                         Item("target", Dict(<<Item("owner", T("o")), Item("name", T("n"))>>))>>)
    /\ sent = <<[url |-> <<"org", "/", "a1", "/", "integrations", "/", "b2", "/", "import">>,
                 method |-> "POST",
                 json |-> Dict(<<Item("target", Dict(<<Item("owner", T("o")), Item("name", T("n"))>>))>>)]>>

----------------------------------------------------------------------------
(* C22: malformed pagination substructures *)

\* the body has no usable links.next: it is empty or not a dict, its links
\* are not a dict, or its links.next is null, empty or not a string
MalformedPagination(response) ==
    \/ ~response.has_content
    \/ ~IsDict(response.json)
    \/ /\ Has(response.json, "links")
       /\ \/ ~IsDict(Get(response.json, "links", Null))
          \/ /\ Has(Get(response.json, "links", Null), "next")
             /\ \/ ~IsStr(Get(Get(response.json, "links", Null), "next", Null))
                \/ Get(Get(response.json, "links", Null), "next", Null) = Str(<<>>)

\* C22: get_next_page_data_from_response never raises, and returns {} for
\* an empty body, a body that is not a dict, a links value that is not a
\* dict, and a links.next that is null, empty or not a string.
C22_NeverRaises ==
    CursorDone =>
        /\ ~IsRaise(ret)
        /\ MalformedPagination(arg.response) => ret = EmptyDict

----------------------------------------------------------------------------
(* C23, C28, C29: what _flatten_json_api_record takes from a resource *)

\* a relationship entry that is an object with a data member that is an object
HasObjectData(rel_data) ==
    IsDict(rel_data) /\ Has(rel_data, "data") /\ IsDict(Get(rel_data, "data", Absent))

\* the fields the relationships with an object data give a resource
RelationshipFields(resource) ==
    LET items == RelationshipItems(resource)
    IN {MappedName(items[i].k) \o "_id" : i \in {j \in 1..Len(items) : HasObjectData(items[j].x)}}

\* C23: _flatten_json_api_record never raises; an element that is not a
\* dict is returned unchanged; a dict element gives a record whose keys are
\* id, the keys of its attributes (none when attributes is missing or not
\* a dict) and the fields of its relationships that are objects with an
\* object data (none for missing or non-dict relationships, entries or data).
C23_MalformedAbsent ==
    MapDone =>
        /\ ~IsRaise(ret)
        /\ (IsDict(arg) /\ IsList(Get(arg, "data", Absent))) =>
              \A i \in 1..Len(Get(arg, "data", Absent).v) :
                  ~IsDict(Get(arg, "data", Absent).v[i]) => ret.v[i] = Get(arg, "data", Absent).v[i]
        /\ \A rp \in ResourcePositions :
              /\ IsDict(ret.v[rp[2]])
              /\ Keys(ret.v[rp[2]]) =
                    {"id"} \cup Keys(AttributesOf(rp[1])) \cup RelationshipFields(rp[1])

\* C28 as stated: the id of every flattened record is the resource
\* object's top-level id, null when it has none, whatever its attributes
\* and relationships hold.
C28_AsStated ==
    MapDone =>
        \A rp \in ResourcePositions :
            Get(ret.v[rp[2]], "id", Absent) = Get(rp[1], "id", Null)

\* C28 (amended): the id of every flattened record is the resource
\* object's top-level id, null when it has none, unless its attributes
\* hold a key `id` of their own, whose value then is the record's id; no
\* relationship changes it.
C28_RecordId ==
    MapDone =>
        \A rp \in ResourcePositions :
            Get(ret.v[rp[2]], "id", Absent) =
                IF Has(AttributesOf(rp[1]), "id")
                THEN Get(AttributesOf(rp[1]), "id", Absent)
                ELSE Get(rp[1], "id", Null)

C28_Witness ==
    /\ MapDone
    /\ IsDict(arg) /\ IsDict(Get(arg, "data", Absent))
    /\ Get(Get(arg, "data", Absent), "id", Absent) = T("r1")
    /\ Get(Get(arg, "data", Absent), "attributes", Absent)
          = Dict(<<Item("id", AttrValue), Item("name", AttrValue)>>)
    /\ Len(RelationshipItems(Get(arg, "data", Absent))) = 2
    /\ ret.v[1].v[1] = Item("id", AttrValue)

\* C29: a relationship entry without a data member, or whose data is null
\* or not an object, adds no `<name>_id` field: unless another relationship
\* of the resource gives that field, the record holds under `<name>_id`
\* what the attributes hold there, and nothing when they hold nothing.
C29_NoField ==
    MapDone =>
        \A rp \in ResourcePositions :
            LET items == RelationshipItems(rp[1])
            IN \A i \in 1..Len(items) :
                 (/\ ~HasObjectData(items[i].x)
                  /\ MappedName(items[i].k) \o "_id" \notin RelationshipFields(rp[1]))
                 => Get(ret.v[rp[2]], MappedName(items[i].k) \o "_id", Absent)
                       = Get(AttributesOf(rp[1]), MappedName(items[i].k) \o "_id", Absent)

----------------------------------------------------------------------------
(* C24: the records counted and the records handed over *)

\* the number of records in what map_records_response hands to the
\* downstream mapper: the length of a list, one for a body passed through
RecordsHanded(handed) == IF IsList(handed) THEN Len(handed.v) ELSE 1

\* the number of records get_next_page_data_from_response compares with the limit
RecordsCounted(response_data) == Len(_extract_records_from_response(response_data).v)

\* C24: for every legacy response body the number of records counted for
\* the pagination decision equals the number of records
\* map_records_response hands to the downstream mapper for the same body,
\* a body passed through as a single record counting as one.
C24_SameCount ==
    V1MapDone => RecordsCounted(arg) = RecordsHanded(ret)

----------------------------------------------------------------------------
(* C30: one context in a membership request body *)

BodyType(body) == Get(Get(body, "data", Null), "type", Null)
BodyRelationships(body) == Get(Get(body, "data", Null), "relationships", Null)
RoleType(body) ==
    Get(Get(Get(BodyRelationships(body), "role", Null), "data", Null), "type", Null)

\* membership type and role type name the organization, or both name the group
SameContext(body) ==
    \/ BodyType(body) = T("org_membership") /\ RoleType(body) = T("org_role")
    \/ BodyType(body) = T("group_membership") /\ RoleType(body) = T("group_role")

\* C30: for every input the membership type and the role type of a create
\* or update body name the same context (org_membership with org_role,
\* group_membership with group_role), and a create body holds exactly one
\* of the relationships org and group, the one of that context, also when
\* the input has both org_id and group_id or neither.
C30_OneContext ==
    /\ CreateRequestDone =>
          /\ SameContext(ret)
          /\ Has(BodyRelationships(ret), "org") = (BodyType(ret) = T("org_membership"))
          /\ Has(BodyRelationships(ret), "group") = (BodyType(ret) = T("group_membership"))
          /\ Has(BodyRelationships(ret), "org") # Has(BodyRelationships(ret), "group")
    /\ UpdateRequestDone => SameContext(ret)

C30_Witness ==
    /\ CreateRequestDone
    /\ Get(arg.data, "org_id", Absent) = T("org-1")
    /\ Get(arg.data, "group_id", Absent) = T("grp-1")
    /\ BodyType(ret) = T("org_membership")
    /\ RoleType(ret) = T("org_role")
    /\ KeyOrder(BodyRelationships(ret)) = <<"user", "role", "org">>

----------------------------------------------------------------------------
(* C27: from_backend on every value a backend may hold *)

FromBackendDone == pc = "done" /\ op = "ProjectTagList.from_backend"

\* the dict and SnykProjectTag elements of a list value, in order
TagLike(elements) == SelectSeq(elements, LAMBDA e : IsDict(e) \/ IsTag(e))

\* C27: from_backend never raises and returns a list of SnykProjectTag for
\* every input: [] for a null or empty value and for a string that is not
\* valid JSON, one tag for each dict and SnykProjectTag element of a list,
\* in order, and for a JSON string the tags of the list it encodes.
C27_AlwaysTags ==
    FromBackendDone =>
        /\ ~IsRaise(ret)
        /\ IsList(ret)
        /\ \A i \in 1..Len(ret.v) : IsTag(ret.v[i])
        /\ ~Truthy(arg.value) => ret = EmptyList
        /\ (IsStr(arg.value) /\ IsRaise(json_loads(arg.value.v))) => ret = EmptyList
        /\ IsList(arg.value) =>
              /\ Len(ret.v) = Len(TagLike(arg.value.v))
              /\ \A i \in 1..Len(ret.v) :
                    IsTag(TagLike(arg.value.v)[i]) => ret.v[i] = TagLike(arg.value.v)[i]

----------------------------------------------------------------------------
(* C26: the operations keep no state *)

\* what a freshly constructed instance of configuration fresh returns for a call
OnFreshInstance(fresh, name, call) ==
    CASE name = "SnykBackend.map_records_response" -> map_records_response(call)
      [] name = "SnykBackend.get_next_page_data_from_response" ->
            get_next_page_data_from_response(fresh.cursor, call.response)
      [] name = "SnykBackend.pagination_to_request_parameters" ->
            pagination_to_request_parameters(fresh.api_version, call)
      [] name = "SnykMembershipBackend.map_create_request" -> map_create_request(call.data)
      [] name = "SnykMembershipBackend.map_update_request" ->
            map_update_request(call.id, call.data, call.model)
      [] name = "SnykV1ImportBackend.create" -> create(call.response)
      [] name = "SnykV1Backend.map_records_response" -> V1_map_records_response(call)
      [] name = "SnykV1Backend.get_next_page_data_from_response" ->
            V1_get_next_page_data_from_response(fresh.page, call.query, call.response)

====
